---- MODULE Spec2Model ----
(***************************************************************************)
(* Agent Orchestrator: the event-driven spawn pipeline (webhook receiver   *)
(* and trigger engine) and the lifecycle manager (poll loop, per-session   *)
(* check, reaction engine, PRP plan gate).                                 *)
(*                                                                         *)
(* The program is single-threaded and asynchronous: every action below is  *)
(* one synchronous run of code between two `await`s, so the interleavings  *)
(* of the actions are the interleavings the event loop can produce.        *)
(***************************************************************************)
EXTENDS Integers, Sequences, FiniteSets, TLC

None == "none"

(***************************************************************************)
(* Bounds of the model.                                                    *)
(***************************************************************************)
MaxDeliveries == 2      \* webhook requests handled in one behaviour
MaxSessions == 2        \* sessions the spawn pipeline may create
TimeStep == 300001      \* granularity of the clock of the spawn pipeline (ms)
MaxNow == 600004        \* the clock of the spawn pipeline stops here (ms)
LifeTicks == 2          \* timer ticks in a behaviour of the lifecycle manager
LifeChecks == 1         \* direct check(sessionId) calls in such a behaviour
LifeRestarts == 1       \* restarts of the orchestrator in such a behaviour
ReactTicks == 1         \* timer ticks in a behaviour of the reaction engine
ReactChecks == 1        \* direct check(sessionId) calls in such a behaviour
MaxSigLen == 3          \* characters of a signature header, its prefix apart
CompleteTicks == 4      \* timer ticks over the sessions that complete
ProbeTicks == 1         \* timer ticks over the session under every probe answer
TrackTicks == 3         \* timer ticks over the two sessions and their trackers
GuardTicks == 3         \* timer ticks over the session whose polls may fail
DeadTicks == 4          \* timer ticks over the two sessions whose runtimes die
FleetTicks == 2         \* timer ticks over the fleet of two sessions
MergeTicks == 4         \* timer ticks over the session with the approved pull request
CiTicks == 5            \* timer ticks in a behaviour of the failing CI

(***************************************************************************)
(* Session statuses (spec section 3) and the two notions of "terminal".    *)
(***************************************************************************)
Status ==
  {"spawning", "working", "needs_input", "stuck", "pr_open", "ci_failed",
   "review_pending", "changes_requested", "approved", "mergeable", "merged",
   "errored", "killed", "terminated", "done"}

TerminalStatus == {"merged", "killed", "terminated", "errored", "done"}

InactiveStatus == {"killed", "terminated", "done", "cleanup", "errored", "merged"}

(***************************************************************************)
(* Strings the code searches in are sequences of characters.               *)
(***************************************************************************)
RECURSIVE IncludesAt(_, _, _)
IncludesAt(hay, needle, i) ==
  IF i + Len(needle) - 1 > Len(hay) THEN FALSE
  ELSE IF SubSeq(hay, i, i + Len(needle) - 1) = needle THEN TRUE
  ELSE IncludesAt(hay, needle, i + 1)

Includes(hay, needle) == IncludesAt(hay, needle, 1)

(***************************************************************************)
(* Configuration of the spawn pipeline: the projects in declaration order. *)
(***************************************************************************)
\* a project without webhooks.plane
NoPlane == [workspaceId |-> <<>>, secret |-> None]

Projects ==
  << [id |-> "app", repo |-> "org/app", secret |-> "s3cret", plane |-> NoPlane,
      triggers |-> << [on |-> "issue.labeled", label |-> "agent-work",
                       assignee |-> None] >>,
      prp |-> [enabled |-> TRUE, gatesPlan |-> TRUE, wbInvestigation |-> TRUE,
               wbPlan |-> TRUE, wbImplementation |-> TRUE, wbPr |-> TRUE]],
     [id |-> "desk", repo |-> "org/app", secret |-> "s3cret",
      plane |-> [workspaceId |-> <<"w", "s">>, secret |-> "p1ane"],
      triggers |-> << [on |-> "issue.opened", label |-> "agent-work",
                       assignee |-> None],
                      [on |-> "issue.assigned", label |-> None, assignee |-> "bot"],
                      [on |-> "issue.opened", label |-> None, assignee |-> None] >>,
      prp |-> [enabled |-> TRUE, gatesPlan |-> TRUE, wbInvestigation |-> TRUE,
               wbPlan |-> TRUE, wbImplementation |-> TRUE, wbPr |-> TRUE]],
     [id |-> "lab", repo |-> "org/lab", secret |-> "s3cret",
      plane |-> [workspaceId |-> <<"w", "s", "2">>, secret |-> "l4b"],
      triggers |-> << [on |-> "issue.opened", label |-> None, assignee |-> None] >>,
      prp |-> [enabled |-> TRUE, gatesPlan |-> TRUE, wbInvestigation |-> TRUE,
               wbPlan |-> TRUE, wbImplementation |-> TRUE, wbPr |-> TRUE]] >>

ProjectIds == {Projects[i].id : i \in DOMAIN Projects}

DeliveryIds == {"d1", "d2"}
\* the keys of the dedup map: the ids, and the key of an event without id
DeliveryKeys == DeliveryIds \cup {None}
IssueNumbers == {<<"4">>, <<"4", "2">>}

DELIVERY_TTL_MS == 600000

NoTs == -1

VARIABLES
  now,             \* Date.now(), in ms
  seenDeliveries,  \* trigger-engine.ts: deliveryId -> time first seen, or NoTs
  handlers,        \* the webhook requests: position, request, result
  sessions,        \* the metadata store: the sequence of sessions, by id
  reactions,       \* config.reactions: reaction key -> reaction config
  states,          \* lifecycle manager: sessionId -> tracked status
  prpPhases,       \* lifecycle manager: sessionId -> last-seen prpPhase
  reactionTrackers, \* lifecycle manager: (sessionId, reactionKey) -> tracker
  polling,         \* lifecycle manager: re-entrancy guard
  allCompleteEmitted, \* lifecycle manager: all_complete edge flag
  ticks,           \* timer ticks still to fire
  polls,           \* the executions of pollAll in progress
  tasks,           \* the executions of checkSession in progress
  checks,          \* direct check(sessionId) calls still to be made
  restarts,        \* restarts of the orchestrator still to happen
  out,             \* what tracker, notifier and agent have received, per session
  emitted          \* what the latest step sent to tracker, notifier and agent

spawnVars == <<now, seenDeliveries, handlers, sessions>>

lifeVars ==
  <<reactions, states, prpPhases, reactionTrackers, polling, allCompleteEmitted,
    ticks, polls, tasks, checks, restarts, out>>

(***************************************************************************)
(* Webhook requests.  A signature header is its text, a sequence of        *)
(* characters; NoSig is the missing (null) or empty header.  The body of   *)
(* a request is fixed, so that the digest depends on the secret alone; a   *)
(* digest has two hex digits, scaled down from the 64 of SHA-256.          *)
(***************************************************************************)
\* createHmac("sha256", secret).update(body).digest("hex"): lower-case hex
\* digits, different for different secrets
digest(secret) ==
  CASE secret = "s3cret" -> <<"a", "1">>
    [] secret = "p1ane" -> <<"1", "a">>
    [] secret = "l4b" -> <<"b", "2">>
    [] OTHER -> <<"c", "3">>

GithubPrefix == <<"s", "h", "a", "2", "5", "6", "=">>
NoPrefix == <<>>

GoodSig == GithubPrefix \o digest("s3cret")
BadSig == GithubPrefix \o digest("wrong")
NoSig == <<>>
\* the bare hex digest, as Plane sends it
BareSig(secret) == digest(secret)
NoIssue == <<>>

IssueRequest(d, n, lbl, sig) ==
  [json |-> TRUE, repo |-> "org/app", sig |-> sig, eventType |-> "issues",
   action |-> "labeled", delivery |-> d, issue |-> n, label |-> lbl,
   assignee |-> None, body |-> <<>>]

IssueRequests ==
  {IssueRequest(d, n, "agent-work", GoodSig) : d \in DeliveryIds, n \in IssueNumbers}
  \cup {IssueRequest("d1", <<"4", "2">>, "bug", GoodSig),
        IssueRequest("d1", <<"4", "2">>, "agent-work", BadSig),
        IssueRequest("d1", <<"4", "2">>, "agent-work", NoSig),
        [IssueRequest("d1", <<"4", "2">>, "agent-work", GoodSig) EXCEPT !.repo = "other/repo"],
        [IssueRequest("d1", <<"4", "2">>, "agent-work", GoodSig) EXCEPT !.repo = None],
        [IssueRequest("d1", <<"4", "2">>, "agent-work", GoodSig) EXCEPT !.json = FALSE],
        [IssueRequest("d1", <<"4", "2">>, "agent-work", GoodSig) EXCEPT !.action = "closed"]}

\* requests to the github endpoint by the way they are signed and formed
SignedRequests ==
  {IssueRequest("d1", <<"4">>, "agent-work", GoodSig),
   IssueRequest("d1", <<"4">>, "agent-work", BareSig("s3cret")),
   IssueRequest("d1", <<"4">>, "agent-work", BadSig),
   IssueRequest("d1", <<"4">>, "agent-work", NoSig),
   IssueRequest("d1", NoIssue, "agent-work", GoodSig),
   [IssueRequest("d1", <<"4">>, "agent-work", GoodSig) EXCEPT !.json = FALSE],
   [IssueRequest("d1", <<"4">>, "agent-work", BadSig) EXCEPT !.json = FALSE],
   [IssueRequest("d1", <<"4">>, "agent-work", BadSig) EXCEPT !.repo = "other/repo"],
   [IssueRequest("d1", <<"4">>, "agent-work", NoSig) EXCEPT !.repo = None]}

\* a request to the plane endpoint; workspace <<>> is a payload without
\* workspace_id, every request carries the x-plane-delivery header
PlaneRequest(d, n, action, updates, sig) ==
  [json |-> TRUE, workspace |-> <<"w", "s">>, sig |-> sig, event |-> "issue",
   data |-> TRUE, action |-> action, updates |-> updates, delivery |-> d,
   number |-> n, labels |-> <<"bug", "agent-work">>, assignees |-> <<"bot">>]

PlaneRequests ==
  {PlaneRequest("d1", <<"4">>, "create", {}, BareSig("p1ane")),
   PlaneRequest("d1", <<"7">>, "update", {"assignees"}, BareSig("p1ane")),
   PlaneRequest("d1", <<"7">>, "update", {"labels", "assignees"}, BareSig("p1ane")),
   PlaneRequest("d1", <<"7">>, "update", {"reopened"}, BareSig("p1ane")),
   PlaneRequest("d1", <<"7">>, "update", {}, BareSig("p1ane")),
   PlaneRequest("d1", <<"7">>, "create", {}, BareSig("wrong")),
   PlaneRequest("d1", <<"7">>, "create", {}, NoSig),
   PlaneRequest("d1", <<"7">>, "create", {},
                GithubPrefix \o digest("p1ane")),
   [PlaneRequest("d1", <<"7">>, "create", {}, BareSig("wrong"))
      EXCEPT !.workspace = <<"w", "s", "1">>],
   [PlaneRequest("d1", <<"7">>, "create", {}, NoSig) EXCEPT !.workspace = <<>>],
   [PlaneRequest("d1", <<"7">>, "create", {}, BareSig("wrong")) EXCEPT !.json = FALSE],
   [PlaneRequest("d1", <<"7">>, "create", {}, BareSig("p1ane")) EXCEPT !.json = FALSE],
   [PlaneRequest("d1", <<"7">>, "create", {}, BareSig("p1ane")) EXCEPT !.data = FALSE]}

NullEvent ==
  [provider |-> None, deliveryId |-> None, event |-> None, issue |-> NoIssue,
   repo |-> None, label |-> None, assignee |-> None, commentBody |-> <<>>]

\* no request yet
NoRequest ==
  [json |-> FALSE, repo |-> None, sig |-> NoSig, eventType |-> None, action |-> None,
   delivery |-> None, issue |-> NoIssue, label |-> None, assignee |-> None,
   body |-> <<>>]

NewHandler ==
  [pc |-> "new", via |-> None, req |-> NoRequest, event |-> NullEvent, arrived |-> NoTs,
   http |-> 0, result |-> None, projectId |-> None, rule |-> 0, sessionId |-> 0]

(***************************************************************************)
(* webhook-utils.ts verifySignature: the prefix is removed from the header *)
(* where it occurs, and what is left is compared with the digest of the    *)
(* body under the secret.                                                  *)
(***************************************************************************)
HexDigits ==
  {"0", "1", "2", "3", "4", "5", "6", "7", "8", "9",
   "a", "b", "c", "d", "e", "f", "A", "B", "C", "D", "E", "F"}

\* the value of a hex digit does not depend on its case
HexLower(c) ==
  CASE c = "A" -> "a" [] c = "B" -> "b" [] c = "C" -> "c"
    [] c = "D" -> "d" [] c = "E" -> "e" [] c = "F" -> "f"
    [] OTHER -> c

\* Buffer.from(text, "hex"): one byte for each pair of hex digits, up to the
\* first pair that is not one
RECURSIVE fromHex(_)
fromHex(text) ==
  IF Len(text) < 2 \/ text[1] \notin HexDigits \/ text[2] \notin HexDigits THEN <<>>
  ELSE <<<<HexLower(text[1]), HexLower(text[2])>>>> \o fromHex(SubSeq(text, 3, Len(text)))

\* String.prototype.replace(prefix, ""): the first occurrence is removed
RECURSIVE replace(_, _, _)
replace(text, prefix, i) ==
  IF i + Len(prefix) - 1 > Len(text) THEN text
  ELSE IF SubSeq(text, i, i + Len(prefix) - 1) = prefix
  THEN SubSeq(text, 1, i - 1) \o SubSeq(text, i + Len(prefix), Len(text))
  ELSE replace(text, prefix, i + 1)

\* what verifySignature compares with the digest
ActualOf(signature, prefix) ==
  IF prefix # NoPrefix THEN replace(signature, prefix, 1) ELSE signature

\* timingSafeEqual raises a RangeError for buffers of different length
verifySignatureThrows(signature, secret, prefix) ==
  /\ signature # NoSig
  /\ Len(digest(secret)) = Len(ActualOf(signature, prefix))
  /\ Len(fromHex(digest(secret))) # Len(fromHex(ActualOf(signature, prefix)))

verifySignature(signature, secret, prefix) ==
  IF signature = NoSig THEN FALSE
  ELSE IF Len(digest(secret)) # Len(ActualOf(signature, prefix)) THEN FALSE
  ELSE fromHex(digest(secret)) = fromHex(ActualOf(signature, prefix))

(***************************************************************************)
(* github/route.ts findSecret: the secret of the first project of the repo.*)
(***************************************************************************)
RECURSIVE FirstProjectOfRepo(_, _)
FirstProjectOfRepo(repo, i) ==
  IF i > Len(Projects) THEN 0
  ELSE IF Projects[i].repo = repo THEN i
  ELSE FirstProjectOfRepo(repo, i + 1)

findSecret(repo) ==
  LET i == FirstProjectOfRepo(repo, 1)
  IN  IF i = 0 THEN None ELSE Projects[i].secret

(***************************************************************************)
(* github/route.ts normalizeGitHubEvent.                                   *)
(***************************************************************************)
normalizeGitHubEvent(req) ==
  IF req.eventType = "issue_comment" /\ req.action = "created"
  THEN IF req.issue = NoIssue THEN NullEvent ELSE
       [provider |-> "github", deliveryId |-> req.delivery, event |-> "issue.comment",
        issue |-> req.issue, repo |-> req.repo, label |-> None, assignee |-> None,
        commentBody |-> req.body]
  ELSE IF req.eventType # "issues" THEN NullEvent
  ELSE LET normalizedEvent ==
             CASE req.action = "labeled" -> "issue.labeled"
               [] req.action = "assigned" -> "issue.assigned"
               [] req.action = "opened" -> "issue.opened"
               [] req.action = "reopened" -> "issue.reopened"
               [] OTHER -> None
       IN  IF normalizedEvent = None THEN NullEvent
           ELSE IF req.issue = NoIssue THEN NullEvent
           ELSE [provider |-> "github", deliveryId |-> req.delivery,
                 event |-> normalizedEvent, issue |-> req.issue, repo |-> req.repo,
                 label |-> req.label, assignee |-> req.assignee, commentBody |-> <<>>]

(***************************************************************************)
(* trigger-engine.ts: delivery dedup.                                      *)
(***************************************************************************)
pruneDeliveries_Never(seen, t) == seen

pruneDeliveries(seen, t) ==
  [d \in DOMAIN seen |->
     IF seen[d] # NoTs /\ t - seen[d] > DELIVERY_TTL_MS THEN NoTs ELSE seen[d]]

SeenAfter_NoInsert(seen, deliveryId, t) == pruneDeliveries(seen, t)

\* the dedup map after isDuplicate(deliveryId) at time t
SeenAfter(seen, deliveryId, t) ==
  LET pruned == pruneDeliveries(seen, t)
  IN  IF pruned[deliveryId] # NoTs THEN pruned
      ELSE [pruned EXCEPT ![deliveryId] = t]

isDuplicate(seen, deliveryId, t) == pruneDeliveries(seen, t)[deliveryId] # NoTs

(***************************************************************************)
(* trigger-engine.ts: findProject, ruleMatches.                            *)
(***************************************************************************)
RECURSIVE FirstProjectOfEvent(_, _)
FirstProjectOfEvent(event, i) ==
  IF i > Len(Projects) THEN 0
  ELSE IF event.provider = "github"
       THEN IF Projects[i].repo = event.repo THEN i
            ELSE FirstProjectOfEvent(event, i + 1)
  ELSE IF event.provider = "plane"
       THEN IF /\ Projects[i].plane.workspaceId # <<>>
               /\ Includes(event.repo, Projects[i].plane.workspaceId)
            THEN i
            ELSE FirstProjectOfEvent(event, i + 1)
  ELSE FirstProjectOfEvent(event, i + 1)

findProject(event) == FirstProjectOfEvent(event, 1)

\* the repo of a plane event that has none
Undefined == <<"undefined">>

\* event.repo.includes raises a TypeError at the first project with a plane
\* workspace when the event has no repo
findProjectThrows(event) ==
  /\ event.provider = "plane"
  /\ event.repo = Undefined
  /\ \E i \in DOMAIN Projects : Projects[i].plane.workspaceId # <<>>

ruleMatches_OnAlone(rule, event) == rule.on = event.event

ruleMatches(rule, event) ==
  IF rule.on # event.event THEN FALSE
  ELSE IF rule.on = "issue.labeled" /\ rule.label # None THEN event.label = rule.label
  ELSE IF rule.on = "issue.assigned" /\ rule.assignee # None
       THEN event.assignee = rule.assignee
  ELSE TRUE

RECURSIVE FirstMatchingRule(_, _, _)
FirstMatchingRule(triggers, event, i) ==
  IF i > Len(triggers) THEN 0
  ELSE IF ruleMatches(triggers[i], event) THEN i
  ELSE FirstMatchingRule(triggers, event, i + 1)

hasActiveSession_IgnoringStatus(list, issueId) ==
  \E i \in DOMAIN list :
    /\ list[i].issueId # NoIssue
    /\ Includes(list[i].issueId, issueId)

hasActiveSession(list, issueId) ==
  \E i \in DOMAIN list :
    /\ list[i].issueId # NoIssue
    /\ Includes(list[i].issueId, issueId)
    /\ list[i].status \notin InactiveStatus

\* sessionManager.list(projectId): the sessions of the project, by id
ListOf(projectId) == SelectSeq(sessions, LAMBDA s : s.projectId = projectId)

(***************************************************************************)
(* github/route.ts APPROVAL_PATTERN = /\b(approved?|lgtm|proceed|go ahead)\b/i *)
(* A comment body is its sequence of words.                                *)
(***************************************************************************)
LowerCase(w) ==
  CASE w = "LGTM" -> "lgtm"
    [] w = "Approved" -> "approved"
    [] OTHER -> w

APPROVAL_PATTERN(body) ==
  \/ \E i \in DOMAIN body : LowerCase(body[i]) \in {"approve", "approved", "lgtm", "proceed"}
  \/ \E i \in DOMAIN body :
       /\ i + 1 \in DOMAIN body
       /\ LowerCase(body[i]) = "go"
       /\ LowerCase(body[i + 1]) = "ahead"

(***************************************************************************)
(* evaluateTriggers up to the call of sessionManager.list (steps 1 to 3     *)
(* and the read of event.issue.number).  An exception leaves the function  *)
(* and, in a webhook handler, POST.                                        *)
(***************************************************************************)
EvaluateStart(event, seen, t) ==
  LET seenAfter == SeenAfter(seen, event.deliveryId, t)
      p == findProject(event)
      r == IF p = 0 THEN 0 ELSE FirstMatchingRule(Projects[p].triggers, event, 1)
  IN  IF isDuplicate(seen, event.deliveryId, t)
      THEN [pc |-> "done", http |-> 200, result |-> "duplicate", projectId |-> None,
            rule |-> 0, seen |-> seenAfter]
      ELSE IF findProjectThrows(event)
      THEN [pc |-> "done", http |-> 500, result |-> "threw", projectId |-> None,
            rule |-> 0, seen |-> seenAfter]
      ELSE IF p = 0
      THEN [pc |-> "done", http |-> 200, result |-> "no project", projectId |-> None,
            rule |-> 0, seen |-> seenAfter]
      ELSE IF r = 0
      THEN [pc |-> "done", http |-> 200, result |-> "no rule",
            projectId |-> Projects[p].id, rule |-> 0, seen |-> seenAfter]
      ELSE IF event.issue = NoIssue
      THEN [pc |-> "done", http |-> 500, result |-> "threw",
            projectId |-> Projects[p].id, rule |-> r, seen |-> seenAfter]
      ELSE [pc |-> "list", http |-> 0, result |-> None, projectId |-> Projects[p].id,
            rule |-> r, seen |-> seenAfter]

(***************************************************************************)
(* handleIssueComment up to the call of sessionManager.list.               *)
(***************************************************************************)
CommentStart(event, seen) ==
  IF event.commentBody = <<>> \/ ~APPROVAL_PATTERN(event.commentBody)
  THEN [pc |-> "done", http |-> 200, result |-> "not an approval comment",
        projectId |-> None, rule |-> 0, seen |-> seen]
  ELSE [pc |-> "clist", http |-> 0, result |-> None, projectId |-> None, rule |-> 0,
        seen |-> seen]

(***************************************************************************)
(* POST of the github endpoint, up to its first call of the session        *)
(* manager.                                                                *)
(***************************************************************************)
\* the same without the answer 401
PostOutcome_Unverified(req, seen, t) ==
  LET secret == findSecret(req.repo)
      event == normalizeGitHubEvent(req)
      Stop(http, result) ==
        [pc |-> "done", http |-> http, result |-> result, projectId |-> None,
         rule |-> 0, seen |-> seen]
  IN  IF ~req.json THEN Stop(400, "Invalid JSON")
      ELSE IF req.repo = None THEN Stop(200, "no repository")
      ELSE IF secret = None THEN Stop(200, "no project config for repo")
      ELSE IF verifySignatureThrows(req.sig, secret, GithubPrefix) THEN Stop(500, "threw")
      ELSE IF event.event = None THEN Stop(200, "not an actionable event")
      ELSE IF event.event = "issue.comment" THEN CommentStart(event, seen)
      ELSE EvaluateStart(event, seen, t)

PostOutcome(req, seen, t) ==
  LET secret == findSecret(req.repo)
      event == normalizeGitHubEvent(req)
      Stop(http, result) ==
        [pc |-> "done", http |-> http, result |-> result, projectId |-> None,
         rule |-> 0, seen |-> seen]
  IN  IF ~req.json THEN Stop(400, "Invalid JSON")
      ELSE IF req.repo = None THEN Stop(200, "no repository")
      ELSE IF secret = None THEN Stop(200, "no project config for repo")
      ELSE IF verifySignatureThrows(req.sig, secret, GithubPrefix) THEN Stop(500, "threw")
      ELSE IF ~verifySignature(req.sig, secret, GithubPrefix)
      THEN Stop(401, "Invalid signature")
      ELSE IF event.event = None THEN Stop(200, "not an actionable event")
      ELSE IF event.event = "issue.comment" THEN CommentStart(event, seen)
      ELSE EvaluateStart(event, seen, t)

Post(h, req) ==
  /\ handlers[h].pc = "new"
  /\ \A g \in 1..(h - 1) : handlers[g].pc # "new"
  /\ LET r == PostOutcome(req, seenDeliveries, now)
     IN  /\ handlers' = [handlers EXCEPT ![h] =
                           [pc |-> r.pc, via |-> "github", req |-> req,
                            event |-> normalizeGitHubEvent(req),
                            arrived |-> now, http |-> r.http, result |-> r.result,
                            projectId |-> r.projectId, rule |-> r.rule,
                            sessionId |-> 0]]
         /\ seenDeliveries' = r.seen
  /\ UNCHANGED <<now, sessions, lifeVars>>
  /\ emitted' = {}

(***************************************************************************)
(* plane/route.ts: normalizePlaneEvent, findSecret and POST up to its      *)
(* first call of the session manager.                                      *)
(***************************************************************************)
normalizePlaneEvent(req) ==
  IF req.event = None \/ ~req.data THEN NullEvent
  ELSE IF req.event # "issue" THEN NullEvent
  ELSE LET normalizedEvent ==
             IF req.action = "create" THEN "issue.opened"
             ELSE IF req.action = "update"
                  THEN IF "labels" \in req.updates THEN "issue.labeled"
                       ELSE IF "assignees" \in req.updates THEN "issue.assigned"
                       ELSE IF "reopened" \in req.updates THEN "issue.reopened"
                       ELSE None
             ELSE None
           labels == req.labels
           assignees == req.assignees
       IN  IF normalizedEvent = None THEN NullEvent
           ELSE [provider |-> "plane", deliveryId |-> req.delivery,
                 event |-> normalizedEvent, issue |-> req.number,
                 repo |-> req.workspace,
                 label |-> IF normalizedEvent = "issue.labeled" /\ labels # <<>>
                           THEN labels[Len(labels)] ELSE None,
                 assignee |-> IF normalizedEvent = "issue.assigned" /\ assignees # <<>>
                              THEN assignees[Len(assignees)] ELSE None,
                 commentBody |-> <<>>]

RECURSIVE FirstProjectOfWorkspace(_, _)
FirstProjectOfWorkspace(workspaceId, i) ==
  IF i > Len(Projects) THEN 0
  ELSE IF Projects[i].plane.workspaceId = workspaceId THEN i
  ELSE FirstProjectOfWorkspace(workspaceId, i + 1)

findPlaneSecret(workspaceId) ==
  IF workspaceId = <<>> THEN None
  ELSE LET i == FirstProjectOfWorkspace(workspaceId, 1)
       IN  IF i = 0 THEN None ELSE Projects[i].plane.secret

PlanePostOutcome(req, seen, t) ==
  LET secret == findPlaneSecret(req.workspace)
      event == normalizePlaneEvent(req)
      Stop(http, result) ==
        [pc |-> "done", http |-> http, result |-> result, projectId |-> None,
         rule |-> 0, seen |-> seen]
  IN  IF ~req.json THEN Stop(400, "Invalid JSON")
      ELSE IF secret = None THEN Stop(200, "no project config for workspace")
      ELSE IF verifySignatureThrows(req.sig, secret, NoPrefix) THEN Stop(500, "threw")
      ELSE IF ~verifySignature(req.sig, secret, NoPrefix) THEN Stop(401, "Invalid signature")
      ELSE IF event.event = None THEN Stop(200, "not an actionable event")
      ELSE EvaluateStart(event, seen, t)

PlanePost(h, req) ==
  /\ handlers[h].pc = "new"
  /\ \A g \in 1..(h - 1) : handlers[g].pc # "new"
  /\ LET r == PlanePostOutcome(req, seenDeliveries, now)
     IN  /\ handlers' = [handlers EXCEPT ![h] =
                           [pc |-> r.pc, via |-> "plane", req |-> req,
                            event |-> normalizePlaneEvent(req),
                            arrived |-> now, http |-> r.http, result |-> r.result,
                            projectId |-> r.projectId, rule |-> r.rule,
                            sessionId |-> 0]]
         /\ seenDeliveries' = r.seen
  /\ UNCHANGED <<now, sessions, lifeVars>>
  /\ emitted' = {}

(***************************************************************************)
(* evaluateTriggers called with an event by a caller other than the two    *)
(* endpoints; http is the answer POST would give.                          *)
(***************************************************************************)
Evaluate(h, event) ==
  /\ handlers[h].pc = "new"
  /\ \A g \in 1..(h - 1) : handlers[g].pc # "new"
  /\ LET r == EvaluateStart(event, seenDeliveries, now)
     IN  /\ handlers' = [handlers EXCEPT ![h] =
                           [pc |-> r.pc, via |-> "direct", req |-> NoRequest,
                            event |-> event, arrived |-> now, http |-> r.http,
                            result |-> r.result, projectId |-> r.projectId,
                            rule |-> r.rule, sessionId |-> 0]]
         /\ seenDeliveries' = r.seen
  /\ UNCHANGED <<now, sessions, lifeVars>>
  /\ emitted' = {}

(***************************************************************************)
(* evaluateTriggers step 4, after sessionManager.list has returned, and    *)
(* the call of sessionManager.spawn that follows a decision.               *)
(***************************************************************************)
ListReturns(h) ==
  /\ handlers[h].pc = "list"
  /\ LET issueId == handlers[h].event.issue
         list == ListOf(handlers[h].projectId)
     IN  IF hasActiveSession(list, issueId)
         THEN handlers' = [handlers EXCEPT ![h].pc = "done", ![h].http = 200,
                                           ![h].result = "active session"]
         ELSE handlers' = [handlers EXCEPT
                             ![h].pc = IF handlers[h].via = "direct" THEN "done"
                                       ELSE "spawn",
                             ![h].result = "decision"]
  /\ UNCHANGED <<now, seenDeliveries, sessions, lifeVars>>
  /\ emitted' = {}

\* sessionManager.list rejects: evaluateTriggers has no handler, POST fails
ListFails(h) ==
  /\ handlers[h].pc = "list"
  /\ handlers' = [handlers EXCEPT ![h].pc = "done", ![h].http = 500,
                                  ![h].result = "list failed"]
  /\ UNCHANGED <<now, seenDeliveries, sessions, lifeVars>>
  /\ emitted' = {}

(***************************************************************************)
(* sessionManager.spawn (spec 4.F): the next id of the project is reserved *)
(* and the metadata persisted with status spawning.                        *)
(***************************************************************************)
IssueUrl(number) == <<"/">> \o number

NewSession(projectId, issueId) ==
  [projectId |-> projectId, issueId |-> IssueUrl(issueId), status |-> "spawning",
   prpPhase |-> None, pr |-> FALSE, runtimeHandle |-> TRUE]

SpawnReturns(h) ==
  /\ handlers[h].pc = "spawn"
  /\ Len(sessions) < MaxSessions
  /\ sessions' = Append(sessions, NewSession(handlers[h].projectId, handlers[h].event.issue))
  /\ handlers' = [handlers EXCEPT ![h].pc = "done", ![h].http = 200,
                                  ![h].result = "spawned",
                                  ![h].sessionId = Len(sessions) + 1]
  /\ UNCHANGED <<now, seenDeliveries, lifeVars>>
  /\ emitted' = {}

SpawnFails(h) ==
  /\ handlers[h].pc = "spawn"
  /\ handlers' = [handlers EXCEPT ![h].pc = "done", ![h].http = 200,
                                  ![h].result = "spawn failed"]
  /\ UNCHANGED <<now, seenDeliveries, sessions, lifeVars>>
  /\ emitted' = {}

\* sessionManager.kill (spec 4.F) as seen by the spawn pipeline
SessionKilled(i) ==
  /\ i \in DOMAIN sessions
  /\ sessions[i].status \notin TerminalStatus
  /\ sessions' = [sessions EXCEPT ![i].status = "killed"]
  /\ UNCHANGED <<now, seenDeliveries, handlers, lifeVars>>
  /\ emitted' = {}

AdvanceClock ==
  /\ now + TimeStep <= MaxNow
  /\ now' = now + TimeStep
  /\ UNCHANGED <<seenDeliveries, handlers, sessions, lifeVars>>
  /\ emitted' = {}


(***************************************************************************)
(* Lifecycle manager: pure helpers.                                        *)
(***************************************************************************)
Digits == {"0", "1", "2", "3", "4", "5", "6", "7", "8", "9"}

DigitValue(c) ==
  CASE c = "0" -> 0 [] c = "1" -> 1 [] c = "2" -> 2 [] c = "3" -> 3 [] c = "4" -> 4
    [] c = "5" -> 5 [] c = "6" -> 6 [] c = "7" -> 7 [] c = "8" -> 8 [] c = "9" -> 9

RECURSIVE parseInt(_)
parseInt(ds) ==
  IF ds = <<>> THEN 0
  ELSE 10 * parseInt(SubSeq(ds, 1, Len(ds) - 1)) + DigitValue(ds[Len(ds)])

\* parseDuration: /^(\d+)(s|m|h)$/ or 0
parseDuration(str) ==
  IF Len(str) < 2 THEN 0
  ELSE LET unit == str[Len(str)]
           ds == SubSeq(str, 1, Len(str) - 1)
       IN  IF \E i \in DOMAIN ds : ds[i] \notin Digits THEN 0
           ELSE CASE unit = "s" -> parseInt(ds) * 1000
                  [] unit = "m" -> parseInt(ds) * 60000
                  [] unit = "h" -> parseInt(ds) * 3600000
                  [] OTHER -> 0

\* inferPriority: the substring tests of the code, applied to each event type
inferPriority(type) ==
  CASE type \in {"session.stuck", "session.needs_input", "session.errored"} -> "urgent"
    [] type = "summary.all_complete" -> "info"
    [] type \in {"review.approved", "merge.ready", "merge.completed"} -> "action"
    [] type \in {"ci.failing", "review.changes_requested", "merge.conflicts"} -> "warning"
    [] OTHER -> "info"

statusToEventType(to) ==
  CASE to = "working" -> "session.working"
    [] to = "pr_open" -> "pr.created"
    [] to = "ci_failed" -> "ci.failing"
    [] to = "review_pending" -> "review.pending"
    [] to = "changes_requested" -> "review.changes_requested"
    [] to = "approved" -> "review.approved"
    [] to = "mergeable" -> "merge.ready"
    [] to = "merged" -> "merge.completed"
    [] to = "needs_input" -> "session.needs_input"
    [] to = "stuck" -> "session.stuck"
    [] to = "errored" -> "session.errored"
    [] to = "killed" -> "session.killed"
    [] OTHER -> None

eventToReactionKey(eventType) ==
  CASE eventType = "ci.failing" -> "ci-failed"
    [] eventType = "review.changes_requested" -> "changes-requested"
    [] eventType = "automated_review.found" -> "bugbot-comments"
    [] eventType = "merge.conflicts" -> "merge-conflicts"
    [] eventType = "merge.ready" -> "approved-and-green"
    [] eventType = "session.stuck" -> "agent-stuck"
    [] eventType = "session.needs_input" -> "agent-needs-input"
    [] eventType = "session.killed" -> "agent-exited"
    [] eventType = "summary.all_complete" -> "all-complete"
    [] OTHER -> None

ReactionKeys ==
  {"ci-failed", "changes-requested", "bugbot-comments", "merge-conflicts",
   "approved-and-green", "agent-stuck", "agent-needs-input", "agent-exited",
   "all-complete"}

\* getWritebackComment: which comment a transition into newStatus posts
getWritebackComment(newStatus, prpEnabled, writebackPr) ==
  CASE newStatus = "pr_open" -> IF prpEnabled /\ ~writebackPr THEN None ELSE "completed work"
    [] newStatus = "stuck" -> "needs attention: stuck"
    [] newStatus = "errored" -> "needs attention: errored"
    [] OTHER -> None

\* getPrpWritebackComment
getPrpWritebackComment(newPhase) ==
  CASE newPhase = "investigating" -> "started investigating"
    [] newPhase = "planning" -> "is creating an implementation plan"
    [] newPhase = "planning_complete" -> "has completed the implementation plan"
    [] newPhase = "implementing" -> "is implementing the plan"
    [] OTHER -> None

(***************************************************************************)
(* determineStatus.  A probe is what the plugins answer during one call:   *)
(* alive, procAlive, mergeable in {"true","false","throws"};               *)
(* output in {"text","empty","throws"}; activity as the agent classifies   *)
(* it; prState, ci, review as the SCM reports them, or "throws".           *)
(***************************************************************************)
PrStatus(session, p) ==
  IF p.prState = "throws" THEN None
  ELSE IF p.prState = "merged" THEN "merged"
  ELSE IF p.prState = "closed" THEN "killed"
  ELSE IF p.ci = "throws" THEN None
  ELSE IF p.ci = "failing" THEN "ci_failed"
  ELSE IF p.review = "throws" THEN None
  ELSE IF p.review = "changes_requested" THEN "changes_requested"
  ELSE IF p.review = "approved"
       THEN IF p.mergeable = "throws" THEN None
            ELSE IF p.mergeable = "true" THEN "mergeable" ELSE "approved"
  ELSE IF p.review = "pending" THEN "review_pending"
  ELSE "pr_open"

ActivityStatus(session, p) ==
  IF p.output = "throws" \/ (p.output = "text" /\ p.activity # "waiting_input"
                              /\ p.procAlive = "throws")
  THEN IF session.status \in {"stuck", "needs_input"} THEN session.status ELSE None
  ELSE IF p.output = "empty" THEN None
  ELSE IF p.activity = "waiting_input" THEN "needs_input"
  ELSE IF p.procAlive = "false" THEN "killed"
  ELSE None

DefaultStatus(session) ==
  IF session.status \in {"spawning", "stuck", "needs_input"} THEN "working"
  ELSE session.status

determineStatus_PrFirst(session, p) ==
  IF session.projectId \notin ProjectIds THEN session.status
  ELSE IF session.runtimeHandle /\ p.alive = "false" THEN "killed"
  ELSE LET a == IF session.runtimeHandle THEN ActivityStatus(session, p) ELSE None
           pr == IF session.pr THEN PrStatus(session, p) ELSE None
       IN  IF pr # None THEN pr
           ELSE IF a # None THEN a
           ELSE DefaultStatus(session)

determineStatus(session, p) ==
  IF session.projectId \notin ProjectIds THEN session.status
  ELSE IF session.runtimeHandle /\ p.alive = "false" THEN "killed"
  ELSE LET a == IF session.runtimeHandle THEN ActivityStatus(session, p) ELSE None
           pr == IF session.pr THEN PrStatus(session, p) ELSE None
       IN  IF a # None THEN a
           ELSE IF pr # None THEN pr
           ELSE DefaultStatus(session)

(***************************************************************************)
(* Reaction configuration.  retries = NoRetries is an absent `retries`;    *)
(* escalateAfter is absent, a number or a duration string.                 *)
(***************************************************************************)
NoRetries == -1

NoEscalateAfter == [kind |-> None, n |-> 0, str |-> <<>>]
EscalateAfterCount(n) == [kind |-> "number", n |-> n, str |-> <<>>]
EscalateAfterDuration(str) == [kind |-> "string", n |-> 0, str |-> str]

NoReaction ==
  [auto |-> TRUE, action |-> None, message |-> FALSE, priority |-> None,
   retries |-> NoRetries, escalateAfter |-> NoEscalateAfter]

\* reactions: ci-failed: {auto: true, action: send-to-agent, message, retries: 2,
\*                         priority: warning}
CiFailedReaction ==
  [auto |-> TRUE, action |-> "send-to-agent", message |-> TRUE, priority |-> "warning",
   retries |-> 2, escalateAfter |-> NoEscalateAfter]

\* reactions: all-complete: {auto: true, action: notify, priority: info}
AllCompleteReaction ==
  [auto |-> TRUE, action |-> "notify", message |-> FALSE, priority |-> "info",
   retries |-> NoRetries, escalateAfter |-> NoEscalateAfter]

DefaultReactions ==
  [k \in ReactionKeys |->
     CASE k = "ci-failed" -> CiFailedReaction
       [] k = "all-complete" -> AllCompleteReaction
       [] OTHER -> NoReaction]

(***************************************************************************)
(* createLifecycleManager: the state of a freshly constructed manager.     *)
(***************************************************************************)
SessionIds == 1..MaxSessions
SystemId == 0

NoTracker == [attempts |-> 0, firstTriggered |-> NoTs]

\* per session, what has been observed of it so far: plan-gate comments and
\* notifications, resume messages delivered, persisted transitions into
\* ci_failed, the ticks that were left when a send failed that no reaction
\* has followed yet, a restart while plan-gated, and what the last restart
\* found when the maps of the manager agreed with the metadata of the
\* session: the ticks left, the persisted status and the persisted prpPhase
NoRestart == [ticks |-> NoTs, status |-> None, prpPhase |-> None]

\* `completed`: the all-complete reaction has run since a poll last listed
\* the session in a non-terminal status.
\* the system prompt built for the session: the configuration it was built
\* from and its lines, each a sequence of words
NoPrompt ==
  [prp |-> [gates |-> [plan |-> FALSE, pr |-> FALSE]], issueId |-> None,
   projectName |-> None, text |-> <<>>]

NoOut ==
  [gate |-> 0, gateNotif |-> 0, resume |-> 0, ciFailed |-> 0, sendFailedAt |-> NoTs,
   restartedGated |-> FALSE, atRestart |-> NoRestart, threw |-> FALSE,
   prompt |-> NoPrompt, completed |-> FALSE]

LifeConstructed ==
  /\ states = [i \in SessionIds |-> None]
  /\ prpPhases = [i \in SessionIds |-> None]
  /\ reactionTrackers = [k \in (SessionIds \cup {SystemId}) \X ReactionKeys |-> NoTracker]
  /\ polling = FALSE
  /\ allCompleteEmitted = FALSE
  /\ polls = {}
  /\ tasks = {}

\* what the environment has done so far: nothing
NothingObserved ==
  /\ out = [i \in SessionIds |-> NoOut]
  /\ emitted = {}

(***************************************************************************)
(* executeReaction.                                                        *)
(***************************************************************************)
shouldEscalate_IgnoringRetries(attempts, elapsed, cfg) ==
  \/ /\ cfg.escalateAfter.kind = "string"
     /\ parseDuration(cfg.escalateAfter.str) > 0
     /\ elapsed > parseDuration(cfg.escalateAfter.str)
  \/ cfg.escalateAfter.kind = "number" /\ attempts > cfg.escalateAfter.n

shouldEscalate(attempts, elapsed, cfg) ==
  \/ cfg.retries # NoRetries /\ attempts > cfg.retries
  \/ /\ cfg.escalateAfter.kind = "string"
     /\ parseDuration(cfg.escalateAfter.str) > 0
     /\ elapsed > parseDuration(cfg.escalateAfter.str)
  \/ cfg.escalateAfter.kind = "number" /\ attempts > cfg.escalateAfter.n

\* the tracker after the lookup-or-create and the increment
TrackerAfter(tracker, t) ==
  IF tracker = NoTracker THEN [attempts |-> 1, firstTriggered |-> t]
  ELSE [tracker EXCEPT !.attempts = @ + 1]

\* what executeReaction does up to its await: the tracker it leaves, whether
\* it escalated, and the call it made (kind, event type or "", priority or "")
executeReaction(tracker, t, cfg) ==
  LET tr == TrackerAfter(tracker, t)
      esc == shouldEscalate(tr.attempts, t - tr.firstTriggered, cfg)
      action == IF cfg.action = None THEN "notify" ELSE cfg.action
      call ==
        IF esc
        THEN <<"notify", "reaction.escalated",
               IF cfg.priority = None THEN "urgent" ELSE cfg.priority>>
        ELSE CASE action = "send-to-agent" ->
                    IF cfg.message THEN <<"send", "reaction", "">> ELSE <<None, "", "">>
               [] action = "notify" ->
                    <<"notify", "reaction.triggered",
                      IF cfg.priority = None THEN "info" ELSE cfg.priority>>
               [] action = "auto-merge" -> <<"notify", "reaction.triggered", "action">>
               [] OTHER -> <<None, "", "">>
  IN  [tracker |-> tr, escalated |-> esc, call |-> call]

(***************************************************************************)
(* checkSession.  A task is one execution of checkSession: the session it  *)
(* was given (view), the oldStatus it computed, and where it is waiting.   *)
(* The parts below work on a bundle of the variables they read and write,  *)
(* so that code that runs without an await in between is one step.         *)
(***************************************************************************)
Bundle ==
  [states |-> states, prpPhases |-> prpPhases, trackers |-> reactionTrackers,
   allc |-> allCompleteEmitted, sessions |-> sessions, out |-> out, emitted |-> {}]

Commit(B) ==
  /\ states' = B.states
  /\ prpPhases' = B.prpPhases
  /\ reactionTrackers' = B.trackers
  /\ allCompleteEmitted' = B.allc
  /\ sessions' = B.sessions
  /\ out' = B.out
  /\ emitted' = B.emitted

ProjectOf(projectId) ==
  Projects[CHOOSE i \in DOMAIN Projects : Projects[i].id = projectId]

\* the session as sessionManager.list / get return it (spec 4.F): status is
\* overwritten with killed when the runtime is found dead
ViewOf(i, dead) ==
  [projectId |-> sessions[i].projectId,
   status |-> IF dead /\ sessions[i].status \notin TerminalStatus
              THEN "killed" ELSE sessions[i].status,
   metaStatus |-> sessions[i].status,
   prpPhase |-> sessions[i].prpPhase,
   pr |-> sessions[i].pr,
   runtimeHandle |-> sessions[i].runtimeHandle]

\* checkSession up to the call of determineStatus
StartTask(owner, i, view) ==
  [owner |-> owner, sid |-> i, pc |-> "probe", view |-> view,
   old |-> IF states[i] # None THEN states[i]
           ELSE IF view.metaStatus # None THEN view.metaStatus ELSE view.status]

\* the same without the clearing of the tracker of the old status
TransitionPart_KeepsTracker(t, new, B) ==
  LET sid == t.sid
      prj == ProjectOf(t.view.projectId)
      wb == getWritebackComment(new, prj.prp.enabled, prj.prp.wbPr)
      oldEvent == statusToEventType(t.old)
      oldKey == IF oldEvent = None THEN None ELSE eventToReactionKey(oldEvent)
      trackers1 == B.trackers
      eventType == statusToEventType(new)
      key == IF eventType = None THEN None ELSE eventToReactionKey(eventType)
      cfg == IF key = None THEN NoReaction ELSE reactions[key]
      runs == key # None /\ cfg.action # None /\ (cfg.auto \/ cfg.action = "notify")
      r == executeReaction(trackers1[<<sid, key>>], now, cfg)
      direct == ~runs /\ eventType # None /\ inferPriority(eventType) # "info"
      calls ==
        (IF wb # None THEN {<<sid, "comment", "status", new>>} ELSE {})
        \cup (IF runs
              THEN {<<sid, "reaction", key, IF r.escalated THEN "escalated" ELSE cfg.action>>}
              ELSE {})
        \cup (IF runs /\ r.call[1] # None
              THEN {<<sid, r.call[1], r.call[2], r.call[3]>>} ELSE {})
        \cup (IF direct THEN {<<sid, "notify", eventType, inferPriority(eventType)>>}
              ELSE {})
  IN  [B |-> [B EXCEPT !.states[sid] = new,
                       !.sessions[sid].status = new,
                       !.allc = IF new \notin {"merged", "killed"} THEN FALSE ELSE @,
                       !.trackers = IF runs THEN [trackers1 EXCEPT ![<<sid, key>>] = r.tracker]
                                    ELSE trackers1,
                       !.out[sid].ciFailed =
                          IF new = "ci_failed" /\ B.sessions[sid].status # "ci_failed"
                          THEN @ + 1 ELSE @,
                       !.out[sid].sendFailedAt = NoTs,
                       !.emitted = @ \cup calls],
       wait |-> IF runs THEN (IF r.call[1] = "send" THEN "send" ELSE "notify")
                ELSE IF direct THEN "notify" ELSE None]

\* the same with the direct notification sent whether a reaction ran or not
TransitionPart_AlwaysDirect(t, new, B) ==
  LET sid == t.sid
      prj == ProjectOf(t.view.projectId)
      wb == getWritebackComment(new, prj.prp.enabled, prj.prp.wbPr)
      oldEvent == statusToEventType(t.old)
      oldKey == IF oldEvent = None THEN None ELSE eventToReactionKey(oldEvent)
      trackers1 == IF oldKey = None THEN B.trackers
                   ELSE [B.trackers EXCEPT ![<<sid, oldKey>>] = NoTracker]
      eventType == statusToEventType(new)
      key == IF eventType = None THEN None ELSE eventToReactionKey(eventType)
      cfg == IF key = None THEN NoReaction ELSE reactions[key]
      runs == key # None /\ cfg.action # None /\ (cfg.auto \/ cfg.action = "notify")
      r == executeReaction(trackers1[<<sid, key>>], now, cfg)
      direct == eventType # None /\ inferPriority(eventType) # "info"
      calls ==
        (IF wb # None THEN {<<sid, "comment", "status", new>>} ELSE {})
        \cup (IF runs
              THEN {<<sid, "reaction", key, IF r.escalated THEN "escalated" ELSE cfg.action>>}
              ELSE {})
        \cup (IF runs /\ r.call[1] # None
              THEN {<<sid, r.call[1], r.call[2], r.call[3]>>} ELSE {})
        \cup (IF direct THEN {<<sid, "notify", eventType, inferPriority(eventType)>>}
              ELSE {})
  IN  [B |-> [B EXCEPT !.states[sid] = new,
                       !.sessions[sid].status = new,
                       !.allc = IF new \notin {"merged", "killed"} THEN FALSE ELSE @,
                       !.trackers = IF runs THEN [trackers1 EXCEPT ![<<sid, key>>] = r.tracker]
                                    ELSE trackers1,
                       !.out[sid].ciFailed =
                          IF new = "ci_failed" /\ B.sessions[sid].status # "ci_failed"
                          THEN @ + 1 ELSE @,
                       !.out[sid].sendFailedAt = NoTs,
                       !.emitted = @ \cup calls],
       wait |-> IF runs THEN (IF r.call[1] = "send" THEN "send" ELSE "notify")
                ELSE IF direct THEN "notify" ELSE None]

\* checkSession, the branch newStatus !== oldStatus
TransitionPart(t, new, B) ==
  LET sid == t.sid
      prj == ProjectOf(t.view.projectId)
      wb == getWritebackComment(new, prj.prp.enabled, prj.prp.wbPr)
      oldEvent == statusToEventType(t.old)
      oldKey == IF oldEvent = None THEN None ELSE eventToReactionKey(oldEvent)
      trackers1 == IF oldKey = None THEN B.trackers
                   ELSE [B.trackers EXCEPT ![<<sid, oldKey>>] = NoTracker]
      eventType == statusToEventType(new)
      key == IF eventType = None THEN None ELSE eventToReactionKey(eventType)
      cfg == IF key = None THEN NoReaction ELSE reactions[key]
      runs == key # None /\ cfg.action # None /\ (cfg.auto \/ cfg.action = "notify")
      r == executeReaction(trackers1[<<sid, key>>], now, cfg)
      direct == ~runs /\ eventType # None /\ inferPriority(eventType) # "info"
      calls ==
        (IF wb # None THEN {<<sid, "comment", "status", new>>} ELSE {})
        \cup (IF runs
              THEN {<<sid, "reaction", key, IF r.escalated THEN "escalated" ELSE cfg.action>>}
              ELSE {})
        \cup (IF runs /\ r.call[1] # None
              THEN {<<sid, r.call[1], r.call[2], r.call[3]>>} ELSE {})
        \cup (IF direct THEN {<<sid, "notify", eventType, inferPriority(eventType)>>}
              ELSE {})
  IN  [B |-> [B EXCEPT !.states[sid] = new,
                       !.sessions[sid].status = new,
                       !.allc = IF new \notin {"merged", "killed"} THEN FALSE ELSE @,
                       !.trackers = IF runs THEN [trackers1 EXCEPT ![<<sid, key>>] = r.tracker]
                                    ELSE trackers1,
                       !.out[sid].ciFailed =
                          IF new = "ci_failed" /\ B.sessions[sid].status # "ci_failed"
                          THEN @ + 1 ELSE @,
                       !.out[sid].sendFailedAt = NoTs,
                       !.emitted = @ \cup calls],
       wait |-> IF runs THEN (IF r.call[1] = "send" THEN "send" ELSE "notify")
                ELSE IF direct THEN "notify" ELSE None]

PlanGateFires_AlsoWhenGated(newPrpPhase, prp) ==
  newPrpPhase \in {"planning_complete", "plan_gate"} /\ prp.gatesPlan

\* the condition of the plan gate
PlanGateFires(newPrpPhase, prp) ==
  newPrpPhase = "planning_complete" /\ prp.gatesPlan

\* checkSession, the PRP phase block
PrpPart(t, B) ==
  LET sid == t.sid
      newPrpPhase == t.view.prpPhase
      oldPrpPhase == B.prpPhases[sid]
      prp == ProjectOf(t.view.projectId).prp
      phaseEnabled ==
        \/ newPrpPhase = "investigating" /\ prp.wbInvestigation
        \/ newPrpPhase = "planning" /\ prp.wbPlan
        \/ newPrpPhase = "planning_complete" /\ prp.wbPlan
        \/ newPrpPhase = "implementing" /\ prp.wbImplementation
      comment == IF phaseEnabled THEN getPrpWritebackComment(newPrpPhase) ELSE None
      gate == PlanGateFires(newPrpPhase, prp)
      calls ==
        (IF comment # None THEN {<<sid, "comment", "phase", newPrpPhase>>} ELSE {})
        \cup (IF gate THEN {<<sid, "comment", "plan-gate", "">>,
                            <<sid, "notify", "prp.plan_gate", "action">>}
              ELSE {})
  IN  IF newPrpPhase = None \/ newPrpPhase = oldPrpPhase THEN [B |-> B, wait |-> None]
      ELSE IF ~prp.enabled
      THEN [B |-> [B EXCEPT !.prpPhases[sid] = newPrpPhase], wait |-> None]
      ELSE [B |-> [B EXCEPT !.prpPhases[sid] = newPrpPhase,
                            !.emitted = @ \cup calls,
                            !.out[sid].gate = IF gate THEN @ + 1 ELSE @,
                            !.out[sid].gateNotif = IF gate THEN @ + 1 ELSE @],
            wait |-> IF gate THEN "gate" ELSE None]

\* the task after a part: removed when checkSession has returned
TasksAfter(t, wait) ==
  IF wait = None THEN tasks \ {t} ELSE (tasks \ {t}) \cup {[t EXCEPT !.pc = wait]}

\* determineStatus returns: the status block, and the PRP block when the
\* status block awaits nothing
ProbeReturns(t, p) ==
  /\ t \in tasks
  /\ t.pc = "probe"
  /\ LET new == determineStatus(t.view, p)
         r1 == IF new # t.old THEN TransitionPart(t, new, Bundle)
               ELSE [B |-> [Bundle EXCEPT !.states[t.sid] = new], wait |-> None]
         r2 == IF r1.wait = None THEN PrpPart(t, r1.B) ELSE r1
     IN  /\ Commit(r2.B)
         /\ tasks' = TasksAfter(t, r2.wait)
  /\ UNCHANGED <<now, seenDeliveries, handlers, reactions, polling, ticks, polls,
                 checks, restarts>>

\* a throw inside checkSession that ends the whole poll: what Promise.all in
\* the place of Promise.allSettled would do
TransitionThrows_Halting(t, p) ==
  /\ t \in tasks
  /\ t.pc = "probe"
  /\ t.view.projectId \in ProjectIds
  /\ determineStatus(t.view, p) # t.old
  /\ states' = [states EXCEPT ![t.sid] = determineStatus(t.view, p)]
  /\ tasks' = tasks \ {t}
  /\ polls' = {run \in polls : t.owner # <<"poll", run.id>>}
  /\ polling' = IF polls' = polls THEN polling ELSE FALSE
  /\ out' = [out EXCEPT ![t.sid].threw = TRUE]
  /\ emitted' = {}
  /\ UNCHANGED <<now, seenDeliveries, handlers, sessions, reactions, prpPhases,
                 reactionTrackers, allCompleteEmitted, ticks, checks, restarts>>

\* determineStatus returns a new status and updateMetadata, which writes the
\* metadata file of the session, throws: checkSession has set the tracked
\* status and rejects, and Promise.allSettled records the rejection
TransitionThrows(t, p) ==
  /\ t \in tasks
  /\ t.pc = "probe"
  /\ t.view.projectId \in ProjectIds
  /\ determineStatus(t.view, p) # t.old
  /\ states' = [states EXCEPT ![t.sid] = determineStatus(t.view, p)]
  /\ tasks' = tasks \ {t}
  /\ out' = [out EXCEPT ![t.sid].threw = TRUE]
  /\ emitted' = {}
  /\ UNCHANGED <<now, seenDeliveries, handlers, sessions, reactions, prpPhases,
                 reactionTrackers, polling, allCompleteEmitted, ticks, polls, checks,
                 restarts>>

\* the await of executeReaction / notifyHuman in the status block returns;
\* a send to the agent may have failed (ok = FALSE)
ReactionReturns(t, ok) ==
  /\ t \in tasks
  /\ t.pc \in {"send", "notify"}
  /\ ok \/ t.pc = "send"
  /\ LET B0 == [Bundle EXCEPT !.emitted =
                                 IF t.pc = "send"
                                 THEN {<<t.sid, "send-result",
                                         IF ok THEN "ok" ELSE "failed", "">>}
                                 ELSE {},
                               !.out[t.sid].sendFailedAt = IF ok THEN @ ELSE ticks]
         r == PrpPart(t, B0)
     IN  /\ Commit(r.B)
         /\ tasks' = TasksAfter(t, r.wait)
  /\ UNCHANGED <<now, seenDeliveries, handlers, reactions, polling, ticks, polls,
                 checks, restarts>>

\* the await of the plan-gate notification returns: prpPhase := plan_gate
GateReturns(t) ==
  /\ t \in tasks
  /\ t.pc = "gate"
  /\ sessions' = [sessions EXCEPT ![t.sid].prpPhase = "plan_gate"]
  /\ tasks' = tasks \ {t}
  /\ emitted' = {}
  /\ UNCHANGED <<now, seenDeliveries, handlers, reactions, states, prpPhases,
                 reactionTrackers, polling, allCompleteEmitted, ticks, polls, checks,
                 restarts, out>>

(***************************************************************************)
(* pollAll.  A poll is one execution of the body of pollAll: its id, where *)
(* it is waiting, and the statuses of the sessions it was given.           *)
(***************************************************************************)
TimerTick_NoGuard ==
  /\ ticks > 0
  /\ ticks' = ticks - 1
  /\ polling' = TRUE
  /\ polls' = polls \cup {[id |-> ticks, pc |-> "list", list |-> <<>>]}
  /\ emitted' = {}
  /\ UNCHANGED <<now, seenDeliveries, handlers, sessions, reactions, states, prpPhases,
                 reactionTrackers, allCompleteEmitted, tasks, checks, restarts, out>>

\* the timer fires (or start() runs the first cycle): pollAll up to the call
\* of sessionManager.list, or nothing at all when a poll is in progress
TimerTick ==
  /\ ticks > 0
  /\ ticks' = ticks - 1
  /\ IF polling THEN UNCHANGED <<polling, polls>>
     ELSE /\ polling' = TRUE
          /\ polls' = polls \cup {[id |-> ticks, pc |-> "list", list |-> <<>>]}
  /\ emitted' = {}
  /\ UNCHANGED <<now, seenDeliveries, handlers, sessions, reactions, states, prpPhases,
                 reactionTrackers, allCompleteEmitted, tasks, checks, restarts, out>>

\* sessionManager.list returns (the runtimes of deadSet found dead): the
\* filter, and every checkSession up to its call of determineStatus
PollListReturns(run, deadSet) ==
  /\ run \in polls
  /\ run.pc = "list"
  /\ LET view == [i \in DOMAIN sessions |-> ViewOf(i, i \in deadSet)]
         sessionsToCheck ==
           {i \in DOMAIN sessions :
              \/ view[i].status \notin {"merged", "killed"}
              \/ states[i] # None /\ states[i] # view[i].status}
     IN  /\ tasks' = tasks \cup {StartTask(<<"poll", run.id>>, i, view[i]) :
                                   i \in sessionsToCheck}
         /\ polls' = (polls \ {run}) \cup
                       {[run EXCEPT !.pc = "check",
                                    !.list = [i \in DOMAIN sessions |-> view[i].status]]}
  /\ emitted' = {}
  /\ UNCHANGED <<now, seenDeliveries, handlers, sessions, reactions, states, prpPhases,
                 reactionTrackers, polling, allCompleteEmitted, ticks, checks, restarts,
                 out>>

\* the same without the finally block
PollListFails_KeepsGuard(run) ==
  /\ run \in polls
  /\ run.pc = "list"
  /\ polls' = polls \ {run}
  /\ emitted' = {}
  /\ UNCHANGED <<now, seenDeliveries, handlers, sessions, reactions, states, prpPhases,
                 reactionTrackers, polling, allCompleteEmitted, ticks, tasks, checks,
                 restarts, out>>

\* sessionManager.list rejects: catch, finally
PollListFails(run) ==
  /\ run \in polls
  /\ run.pc = "list"
  /\ polls' = polls \ {run}
  /\ polling' = FALSE
  /\ emitted' = {}
  /\ UNCHANGED <<now, seenDeliveries, handlers, sessions, reactions, states, prpPhases,
                 reactionTrackers, allCompleteEmitted, ticks, tasks, checks, restarts,
                 out>>

\* the same without the pruning of the maps
PollSettled_NoPrune(run) ==
  /\ run \in polls
  /\ run.pc = "check"
  /\ \A t \in tasks : t.owner # <<"poll", run.id>>
  /\ LET currentSessionIds == DOMAIN run.list
         pruned == reactionTrackers
         allComplete ==
           /\ Len(run.list) > 0
           /\ \A i \in DOMAIN run.list : run.list[i] \in {"merged", "killed"}
           /\ ~allCompleteEmitted
         key == eventToReactionKey("summary.all_complete")
         cfg == reactions[key]
         runs == allComplete /\ cfg.action # None /\ (cfg.auto \/ cfg.action = "notify")
         r == executeReaction(pruned[<<SystemId, key>>], now, cfg)
     IN  /\ states' = states
         /\ prpPhases' = prpPhases
         /\ allCompleteEmitted' = (allCompleteEmitted \/ allComplete)
         /\ reactionTrackers' =
              IF runs THEN [pruned EXCEPT ![<<SystemId, key>>] = r.tracker] ELSE pruned
         /\ emitted' =
              IF runs
              THEN {<<SystemId, "reaction", key,
                      IF r.escalated THEN "escalated" ELSE cfg.action>>}
                   \cup (IF r.call[1] # None
                         THEN {<<SystemId, r.call[1], r.call[2], r.call[3]>>} ELSE {})
              ELSE {}
         /\ IF runs
            THEN /\ polls' = (polls \ {run}) \cup {[run EXCEPT !.pc = "react"]}
                 /\ UNCHANGED polling
            ELSE /\ polls' = polls \ {run}
                 /\ polling' = FALSE
         /\ out' = [i \in DOMAIN out |->
                      [out[i] EXCEPT !.completed =
                         IF runs THEN TRUE
                         ELSE @ /\ ~(i \in DOMAIN run.list
                                     /\ run.list[i] \notin TerminalStatus)]]
  /\ UNCHANGED <<now, seenDeliveries, handlers, sessions, reactions, ticks, tasks, checks,
                 restarts>>

\* Promise.allSettled returns: pruning, the all-complete check, and either
\* the finally block or the await of the all-complete reaction
PollSettled(run) ==
  /\ run \in polls
  /\ run.pc = "check"
  /\ \A t \in tasks : t.owner # <<"poll", run.id>>
  /\ LET currentSessionIds == DOMAIN run.list
         pruned == [k \in DOMAIN reactionTrackers |->
                      IF k[1] \in currentSessionIds THEN reactionTrackers[k]
                      ELSE NoTracker]
         allComplete ==
           /\ Len(run.list) > 0
           /\ \A i \in DOMAIN run.list : run.list[i] \in {"merged", "killed"}
           /\ ~allCompleteEmitted
         key == eventToReactionKey("summary.all_complete")
         cfg == reactions[key]
         runs == allComplete /\ cfg.action # None /\ (cfg.auto \/ cfg.action = "notify")
         r == executeReaction(pruned[<<SystemId, key>>], now, cfg)
     IN  /\ states' = [i \in DOMAIN states |->
                         IF i \in currentSessionIds THEN states[i] ELSE None]
         /\ prpPhases' = [i \in DOMAIN prpPhases |->
                            IF i \in currentSessionIds THEN prpPhases[i] ELSE None]
         /\ allCompleteEmitted' = (allCompleteEmitted \/ allComplete)
         /\ reactionTrackers' =
              IF runs THEN [pruned EXCEPT ![<<SystemId, key>>] = r.tracker] ELSE pruned
         /\ emitted' =
              IF runs
              THEN {<<SystemId, "reaction", key,
                      IF r.escalated THEN "escalated" ELSE cfg.action>>}
                   \cup (IF r.call[1] # None
                         THEN {<<SystemId, r.call[1], r.call[2], r.call[3]>>} ELSE {})
              ELSE {}
         /\ IF runs
            THEN /\ polls' = (polls \ {run}) \cup {[run EXCEPT !.pc = "react"]}
                 /\ UNCHANGED polling
            ELSE /\ polls' = polls \ {run}
                 /\ polling' = FALSE
         /\ out' = [i \in DOMAIN out |->
                      [out[i] EXCEPT !.completed =
                         IF runs THEN TRUE
                         ELSE @ /\ ~(i \in DOMAIN run.list
                                     /\ run.list[i] \notin TerminalStatus)]]
  /\ UNCHANGED <<now, seenDeliveries, handlers, sessions, reactions, ticks, tasks, checks,
                 restarts>>

\* the all-complete reaction returns: finally
PollReturns(run) ==
  /\ run \in polls
  /\ run.pc = "react"
  /\ polls' = polls \ {run}
  /\ polling' = FALSE
  /\ emitted' = {}
  /\ UNCHANGED <<now, seenDeliveries, handlers, sessions, reactions, states, prpPhases,
                 reactionTrackers, allCompleteEmitted, ticks, tasks, checks, restarts,
                 out>>

\* check(sessionId): sessionManager.get returns the session (its runtime found
\* dead or not) and checkSession runs up to its call of determineStatus
CheckCall(i, dead) ==
  /\ checks > 0
  /\ i \in DOMAIN sessions
  /\ checks' = checks - 1
  /\ tasks' = tasks \cup {StartTask(<<"check", checks>>, i, ViewOf(i, dead))}
  /\ emitted' = {}
  /\ UNCHANGED <<now, seenDeliveries, handlers, sessions, reactions, states, prpPhases,
                 reactionTrackers, polling, allCompleteEmitted, ticks, polls, restarts,
                 out>>

(***************************************************************************)
(* Restart of the orchestrator: every in-memory map is empty again, what   *)
(* was in progress is gone, the metadata files remain.                     *)
(***************************************************************************)
Restart ==
  /\ restarts > 0
  /\ restarts' = restarts - 1
  /\ states' = [i \in SessionIds |-> None]
  /\ prpPhases' = [i \in SessionIds |-> None]
  /\ reactionTrackers' = [k \in DOMAIN reactionTrackers |-> NoTracker]
  /\ polling' = FALSE
  /\ allCompleteEmitted' = FALSE
  /\ polls' = {}
  /\ tasks' = {}
  /\ seenDeliveries' = [d \in DOMAIN seenDeliveries |-> NoTs]
  /\ handlers' = [h \in DOMAIN handlers |->
                    IF handlers[h].pc \in {"new", "done"} THEN handlers[h]
                    ELSE [handlers[h] EXCEPT !.pc = "done", !.result = "aborted"]]
  /\ out' = [i \in DOMAIN out |->
               IF i \notin DOMAIN sessions THEN out[i]
               ELSE [out[i] EXCEPT
                       !.restartedGated = @ \/ sessions[i].prpPhase = "plan_gate",
                       !.atRestart =
                          IF /\ states[i] = sessions[i].status
                             /\ prpPhases[i] = sessions[i].prpPhase
                          THEN [ticks |-> ticks, status |-> sessions[i].status,
                                prpPhase |-> sessions[i].prpPhase]
                          ELSE NoRestart]]
  /\ emitted' = {}
  /\ UNCHANGED <<now, sessions, reactions, ticks, checks>>

(***************************************************************************)
(* The tool-use hook of the agent (spec 3, 4.F step 9): when a PRP         *)
(* artifact directory appears in the workspace it writes the phase into    *)
(* the metadata of its own session.                                        *)
(***************************************************************************)
HookWrites(i) ==
  /\ i \in DOMAIN sessions
  /\ sessions[i].status \notin TerminalStatus
  /\ sessions[i].prpPhase \in {None, "investigating"}
  /\ sessions' = [sessions EXCEPT ![i].prpPhase =
                    IF @ = None THEN "investigating" ELSE "planning_complete"]
  /\ emitted' = {}
  /\ UNCHANGED <<now, seenDeliveries, handlers, lifeVars>>

(***************************************************************************)
(* handleIssueComment after sessionManager.list has returned, and after    *)
(* sessionManager.send has returned or failed.                             *)
(***************************************************************************)
EndsWith(str, suffix) ==
  /\ Len(suffix) <= Len(str)
  /\ SubSeq(str, Len(str) - Len(suffix) + 1, Len(str)) = suffix

\* sessions.find: the first session of the issue that is plan-gated, or 0
gatedSession(event) ==
  LET G == {i \in DOMAIN sessions :
              /\ sessions[i].issueId # NoIssue
              /\ \/ sessions[i].issueId = IssueUrl(event.issue)
                 \/ EndsWith(sessions[i].issueId, <<"/">> \o event.issue)
              /\ sessions[i].prpPhase = "plan_gate"}
  IN  IF G = {} THEN 0 ELSE CHOOSE i \in G : \A j \in G : i <= j

CommentListReturns(h) ==
  /\ handlers[h].pc = "clist"
  /\ LET g == gatedSession(handlers[h].event)
     IN  IF g = 0
         THEN handlers' = [handlers EXCEPT ![h].pc = "done", ![h].http = 200,
                             ![h].result = "no gated session for this issue"]
         ELSE handlers' = [handlers EXCEPT ![h].pc = "csend", ![h].sessionId = g]
  /\ emitted' = {}
  /\ UNCHANGED <<now, seenDeliveries, sessions, lifeVars>>

\* sessionManager.list rejects: handleIssueComment has no handler around
\* it, POST fails
CommentListFails(h) ==
  /\ handlers[h].pc = "clist"
  /\ handlers' = [handlers EXCEPT ![h].pc = "done", ![h].http = 500,
                                  ![h].result = "list failed"]
  /\ emitted' = {}
  /\ UNCHANGED <<now, seenDeliveries, sessions, lifeVars>>

CommentSendReturns_NoUpdate(h) ==
  /\ handlers[h].pc = "csend"
  /\ out' = [out EXCEPT ![handlers[h].sessionId].resume = @ + 1]
  /\ emitted' = {<<handlers[h].sessionId, "comment", "plan approved", "">>}
  /\ handlers' = [handlers EXCEPT ![h].pc = "done", ![h].http = 200,
                                  ![h].result = "resumed session"]
  /\ UNCHANGED <<now, seenDeliveries, sessions, reactions, states, prpPhases,
                 reactionTrackers, polling, allCompleteEmitted, ticks, polls, tasks,
                 checks, restarts>>

CommentSendReturns(h) ==
  /\ handlers[h].pc = "csend"
  /\ LET g == handlers[h].sessionId
     IN  /\ sessions' = [sessions EXCEPT ![g].prpPhase = "implementing"]
         /\ out' = [out EXCEPT ![g].resume = @ + 1]
         /\ emitted' = {<<g, "comment", "plan approved", "">>}
  /\ handlers' = [handlers EXCEPT ![h].pc = "done", ![h].http = 200,
                                  ![h].result = "resumed session"]
  /\ UNCHANGED <<now, seenDeliveries, reactions, states, prpPhases, reactionTrackers,
                 polling, allCompleteEmitted, ticks, polls, tasks, checks, restarts>>

CommentSendFails(h) ==
  /\ handlers[h].pc = "csend"
  /\ handlers' = [handlers EXCEPT ![h].pc = "done", ![h].http = 200,
                                  ![h].result = "resume failed"]
  /\ emitted' = {}
  /\ UNCHANGED <<now, seenDeliveries, sessions, lifeVars>>

InitSpawn ==
  /\ now = 0
  /\ seenDeliveries = [d \in DeliveryKeys |-> NoTs]
  /\ handlers = [h \in 1..MaxDeliveries |-> NewHandler]
  /\ sessions = <<>>
  /\ reactions = DefaultReactions
  /\ LifeConstructed
  /\ NothingObserved
  /\ ticks = 0 /\ checks = 0 /\ restarts = 0

NextSpawn ==
  \/ \E h \in 1..MaxDeliveries : \E req \in IssueRequests : Post(h, req)
  \/ \E h \in 1..MaxDeliveries : ListReturns(h)
  \/ \E h \in 1..MaxDeliveries : ListFails(h)
  \/ \E h \in 1..MaxDeliveries : SpawnReturns(h)
  \/ \E h \in 1..MaxDeliveries : SpawnFails(h)
  \/ \E i \in 1..MaxSessions : SessionKilled(i)
  \/ AdvanceClock

vars == <<now, seenDeliveries, handlers, sessions, lifeVars, emitted>>

SpecSpawn == InitSpawn /\ [][NextSpawn]_vars

(***************************************************************************)
(* The two endpoints under requests that differ in signature, body and     *)
(* repository or workspace.                                                *)
(***************************************************************************)
NextAnswer ==
  \/ \E h \in 1..MaxDeliveries : \E req \in SignedRequests : Post(h, req)
  \/ \E h \in 1..MaxDeliveries : \E req \in PlaneRequests : PlanePost(h, req)
  \/ \E h \in 1..MaxDeliveries : ListReturns(h)
  \/ \E h \in 1..MaxDeliveries : ListFails(h)
  \/ \E h \in 1..MaxDeliveries : SpawnReturns(h)
  \/ \E h \in 1..MaxDeliveries : SpawnFails(h)

SpecAnswer == InitSpawn /\ [][NextAnswer]_vars

(***************************************************************************)
(* evaluateTriggers on its own: events of both providers against the       *)
(* sessions of the two projects; then the same with events that lack a     *)
(* field.                                                                  *)
(***************************************************************************)
TriggerEvent(provider, d, event, issue, repo) ==
  [provider |-> provider, deliveryId |-> d, event |-> event, issue |-> issue,
   repo |-> repo, label |-> None, assignee |-> None, commentBody |-> <<>>]

GithubEvents ==
  {[TriggerEvent("github", d, "issue.labeled", <<"4">>, "org/app")
      EXCEPT !.label = "agent-work"] : d \in DeliveryIds}
  \cup {[TriggerEvent("github", "d1", "issue.labeled", <<"4">>, "org/app")
           EXCEPT !.label = "bug"],
        TriggerEvent("github", "d1", "issue.labeled", <<"4">>, "other/repo")}

MalformedGithubEvents ==
  {TriggerEvent("github", "d1", "issue.labeled", <<"4">>, None),
   [TriggerEvent("github", "d1", "issue.labeled", NoIssue, "org/app")
      EXCEPT !.label = "agent-work"],
   [TriggerEvent("github", None, "issue.labeled", <<"4">>, "org/app")
      EXCEPT !.label = "agent-work"]}

PlaneEvents ==
  {TriggerEvent("plane", d, "issue.opened", <<"4">>, <<"w", "s">>) : d \in DeliveryIds}
  \cup {[TriggerEvent("plane", "d1", "issue.assigned", <<"4">>, <<"w", "s">>)
           EXCEPT !.assignee = a] : a \in {"bot", "eve"}}
  \cup {TriggerEvent("plane", "d1", "issue.opened", <<"4">>, <<"w", "s", "1">>),
        TriggerEvent("plane", "d1", "issue.opened", <<"4">>, <<"x">>),
        [TriggerEvent("plane", "d1", "issue.opened", <<"4">>, <<"w", "s">>)
           EXCEPT !.label = "bug"]}

MalformedPlaneEvents ==
  {TriggerEvent("plane", "d1", "issue.opened", <<"4">>, Undefined),
   TriggerEvent("plane", None, "issue.opened", NoIssue, <<"w", "s">>)}

\* the sessions evaluateTriggers may find
TriggerSessions ==
  {<<>>,
   <<[NewSession("app", <<"4", "2">>) EXCEPT !.status = "working"]>>,
   <<[NewSession("app", <<"4">>) EXCEPT !.status = "cleanup"]>>,
   <<[NewSession("desk", <<"4">>) EXCEPT !.status = "working"]>>}

InitTriggers ==
  /\ now = 0
  /\ seenDeliveries = [d \in DeliveryKeys |-> NoTs]
  /\ handlers = [h \in 1..MaxDeliveries |-> NewHandler]
  /\ sessions \in TriggerSessions
  /\ reactions = DefaultReactions
  /\ LifeConstructed
  /\ NothingObserved
  /\ ticks = 0 /\ checks = 0 /\ restarts = 0

NextTriggers ==
  \/ \E h \in 1..MaxDeliveries : \E event \in GithubEvents : Evaluate(h, event)
  \/ \E h \in 1..MaxDeliveries : \E event \in PlaneEvents : Evaluate(h, event)
  \/ \E h \in 1..MaxDeliveries : ListReturns(h)
  \/ \E h \in 1..MaxDeliveries : ListFails(h)
  \/ \E i \in 1..MaxSessions : SessionKilled(i)
  \/ AdvanceClock

SpecTriggers == InitTriggers /\ [][NextTriggers]_vars

NextMalformed ==
  \/ \E h \in 1..MaxDeliveries :
       \E event \in GithubEvents \cup MalformedGithubEvents : Evaluate(h, event)
  \/ \E h \in 1..MaxDeliveries :
       \E event \in MalformedPlaneEvents : Evaluate(h, event)
  \/ \E h \in 1..MaxDeliveries : ListReturns(h)
  \/ \E h \in 1..MaxDeliveries : ListFails(h)

SpecMalformed == InitTriggers /\ [][NextMalformed]_vars

(***************************************************************************)
(* The lifecycle manager over one session of the PRP project, whose agent  *)
(* is at work on a branch with a pull request.                             *)
(***************************************************************************)
ProbeOpenPr ==
  [alive |-> "true", procAlive |-> "true", mergeable |-> "false", output |-> "text",
   activity |-> "active", prState |-> "open", ci |-> "passing", review |-> "none"]

ProbeMerged == [ProbeOpenPr EXCEPT !.prState = "merged"]

ProbeCiFailing == [ProbeOpenPr EXCEPT !.ci = "failing"]

LifeProbes == {ProbeOpenPr, ProbeMerged}

WorkingSession ==
  [NewSession("app", <<"4", "2">>) EXCEPT !.status = "working", !.pr = TRUE]

InitLife ==
  /\ now = 0
  /\ seenDeliveries = [d \in DeliveryKeys |-> NoTs]
  /\ handlers = [h \in 1..MaxDeliveries |-> NewHandler]
  /\ sessions = <<WorkingSession>>
  /\ reactions = DefaultReactions
  /\ LifeConstructed
  /\ NothingObserved
  /\ ticks = LifeTicks /\ checks = LifeChecks /\ restarts = LifeRestarts

NextLife ==
  \/ TimerTick
  \/ \E run \in polls : PollListReturns(run, {})
  \/ \E run \in polls : PollListFails(run)
  \/ \E t \in tasks : \E p \in LifeProbes : ProbeReturns(t, p)
  \/ \E t \in tasks : \E ok \in BOOLEAN : ReactionReturns(t, ok)
  \/ \E t \in tasks : GateReturns(t)
  \/ \E run \in polls : PollSettled(run)
  \/ \E run \in polls : PollReturns(run)
  \/ \E i \in SessionIds : CheckCall(i, FALSE)
  \/ \E i \in SessionIds : HookWrites(i)
  \/ Restart

SpecLife == InitLife /\ [][NextLife]_vars

(***************************************************************************)
(* The reaction engine over the same session, whose CI fails and recovers, *)
(* under each of a few configurations of the ci-failed reaction.           *)
(***************************************************************************)
ReactProbes == {ProbeOpenPr, ProbeCiFailing}

CiFailedReactions ==
  {CiFailedReaction,
   [CiFailedReaction EXCEPT !.retries = 1, !.priority = None],
   [CiFailedReaction EXCEPT !.retries = 0, !.action = "notify"],
   [CiFailedReaction EXCEPT !.retries = NoRetries,
                            !.escalateAfter = EscalateAfterDuration(<<"0", "s">>)],
   [CiFailedReaction EXCEPT !.retries = NoRetries,
                            !.escalateAfter = EscalateAfterDuration(<<"5", "m">>)],
   [CiFailedReaction EXCEPT !.retries = NoRetries,
                            !.escalateAfter = EscalateAfterCount(1)]}

InitReact ==
  /\ now = 0
  /\ seenDeliveries = [d \in DeliveryKeys |-> NoTs]
  /\ handlers = [h \in 1..MaxDeliveries |-> NewHandler]
  /\ sessions = <<WorkingSession>>
  /\ \E c \in CiFailedReactions : reactions = [DefaultReactions EXCEPT !["ci-failed"] = c]
  /\ LifeConstructed
  /\ NothingObserved
  /\ ticks = ReactTicks /\ checks = ReactChecks /\ restarts = 0

NextReact ==
  \/ TimerTick
  \/ \E run \in polls : PollListReturns(run, {})
  \/ \E t \in tasks : \E p \in ReactProbes : ProbeReturns(t, p)
  \/ \E t \in tasks : \E ok \in BOOLEAN : ReactionReturns(t, ok)
  \/ \E run \in polls : PollSettled(run)
  \/ \E i \in SessionIds : CheckCall(i, FALSE)
  \/ AdvanceClock

SpecReact == InitReact /\ [][NextReact]_vars

(***************************************************************************)
(* The same session under the configured reactions and the periodic poll   *)
(* alone: its CI fails and recovers, tick after tick.                      *)
(***************************************************************************)
InitCi ==
  /\ now = 0
  /\ seenDeliveries = [d \in DeliveryKeys |-> NoTs]
  /\ handlers = [h \in 1..MaxDeliveries |-> NewHandler]
  /\ sessions = <<WorkingSession>>
  /\ reactions = DefaultReactions
  /\ LifeConstructed
  /\ NothingObserved
  /\ ticks = CiTicks /\ checks = 0 /\ restarts = 0

NextCi ==
  \/ TimerTick
  \/ \E run \in polls : PollListReturns(run, {})
  \/ \E t \in tasks : \E p \in ReactProbes : ProbeReturns(t, p)
  \/ \E t \in tasks : \E ok \in BOOLEAN : ReactionReturns(t, ok)
  \/ \E run \in polls : PollSettled(run)

SpecCi == InitCi /\ [][NextCi]_vars

(***************************************************************************)
(* Approval comments on the issue of a plan-gated session.                 *)
(***************************************************************************)
CommentRequest(d, n, body, sig) ==
  [IssueRequest(d, n, None, sig) EXCEPT !.eventType = "issue_comment",
                                        !.action = "created", !.body = body]

CommentBodies == {<<"approved">>, <<"LGTM">>, <<"go", "ahead">>, <<"looks", "wrong">>}

CommentRequests ==
  {CommentRequest(d, n, b, GoodSig) : d \in DeliveryIds, n \in IssueNumbers,
                                     b \in CommentBodies}
  \cup {CommentRequest("d1", <<"4", "2">>, <<"approved">>, BadSig),
        CommentRequest("d1", <<"4", "2">>, <<>>, GoodSig)}

GatedSession == [WorkingSession EXCEPT !.prpPhase = "plan_gate"]

InitApprove ==
  /\ now = 0
  /\ seenDeliveries = [d \in DeliveryKeys |-> NoTs]
  /\ handlers = [h \in 1..MaxDeliveries |-> NewHandler]
  /\ sessions = <<GatedSession>>
  /\ reactions = DefaultReactions
  /\ LifeConstructed
  /\ NothingObserved
  /\ ticks = 0 /\ checks = 0 /\ restarts = 0

NextApprove ==
  \/ \E h \in 1..MaxDeliveries : \E req \in CommentRequests : Post(h, req)
  \/ \E h \in 1..MaxDeliveries : CommentListReturns(h)
  \/ \E h \in 1..MaxDeliveries : CommentListFails(h)
  \/ \E h \in 1..MaxDeliveries : CommentSendReturns(h)
  \/ \E h \in 1..MaxDeliveries : CommentSendFails(h)
  \/ AdvanceClock

SpecApprove == InitApprove /\ [][NextApprove]_vars

(***************************************************************************)
(* The gate resume path over the sessions an approval comment may find:    *)
(* one waiting at the plan gate, one that was killed while it waited, one  *)
(* that is past the gate.                                                  *)
(***************************************************************************)
ResumeRequests ==
  {CommentRequest("d1", <<"4", "2">>, <<"approved">>, GoodSig),
   CommentRequest("d1", <<"4", "2">>, <<"looks", "wrong">>, GoodSig),
   CommentRequest("d1", <<"4">>, <<"LGTM">>, GoodSig)}

ResumeSessions ==
  {<<GatedSession>>,
   <<[GatedSession EXCEPT !.status = "killed", !.runtimeHandle = FALSE]>>,
   <<[GatedSession EXCEPT !.prpPhase = "implementing"]>>}

InitResume ==
  /\ now = 0
  /\ seenDeliveries = [d \in DeliveryKeys |-> NoTs]
  /\ handlers = [h \in 1..MaxDeliveries |-> NewHandler]
  /\ sessions \in ResumeSessions
  /\ reactions = DefaultReactions
  /\ LifeConstructed
  /\ NothingObserved
  /\ ticks = 0 /\ checks = 0 /\ restarts = 0

NextResume ==
  \/ \E h \in 1..MaxDeliveries : \E req \in ResumeRequests : Post(h, req)
  \/ \E h \in 1..MaxDeliveries : CommentListReturns(h)
  \/ \E h \in 1..MaxDeliveries : CommentListFails(h)
  \/ \E h \in 1..MaxDeliveries : CommentSendReturns(h)
  \/ \E h \in 1..MaxDeliveries : CommentSendFails(h)

SpecResume == InitResume /\ [][NextResume]_vars

(***************************************************************************)
(* The poll over a fleet of two sessions at work, each with a pull         *)
(* request: a check may throw, the runtime of the first may be found dead, *)
(* and the second may be killed, which archives its metadata.              *)
(***************************************************************************)
FleetSessions ==
  <<WorkingSession,
    [NewSession("app", <<"4">>) EXCEPT !.status = "working", !.pr = TRUE,
                                       !.prpPhase = "implementing"]>>

FleetProbes == {ProbeOpenPr, ProbeMerged, ProbeCiFailing}

\* sessionManager.kill of the newest session (spec 4.F): its metadata file
\* moves to the archive and list no longer returns it
SessionArchived ==
  /\ Len(sessions) > 1
  /\ \A t \in tasks : t.sid # Len(sessions)
  /\ sessions' = SubSeq(sessions, 1, Len(sessions) - 1)
  /\ emitted' = {}
  /\ UNCHANGED <<now, seenDeliveries, handlers, lifeVars>>

InitFleet ==
  /\ now = 0
  /\ seenDeliveries = [d \in DeliveryKeys |-> NoTs]
  /\ handlers = [h \in 1..MaxDeliveries |-> NewHandler]
  /\ sessions = FleetSessions
  /\ reactions = DefaultReactions
  /\ LifeConstructed
  /\ NothingObserved
  /\ ticks = FleetTicks /\ checks = 0 /\ restarts = 0

NextFleet ==
  \/ TimerTick
  \/ \E run \in polls : \E deadSet \in SUBSET {1} : PollListReturns(run, deadSet)
  \/ \E run \in polls : PollListFails(run)
  \/ \E t \in tasks : \E p \in FleetProbes : ProbeReturns(t, p)
  \/ \E t \in tasks : \E p \in FleetProbes : TransitionThrows(t, p)
  \/ \E t \in tasks : \E ok \in BOOLEAN : ReactionReturns(t, ok)
  \/ \E run \in polls : PollSettled(run)
  \/ \E run \in polls : PollReturns(run)
  \/ SessionArchived

SpecFleet == InitFleet /\ [][NextFleet]_vars

(***************************************************************************)
(* The session at work whose pull request is open, green and approved:     *)
(* end-to-end scenario 3, with the approved-and-green reaction configured  *)
(* to notify.                                                              *)
(***************************************************************************)
ProbeApproved == [ProbeOpenPr EXCEPT !.review = "approved"]

ProbeMergeable == [ProbeApproved EXCEPT !.mergeable = "true"]

MergeProbes == {ProbeOpenPr, ProbeApproved, ProbeMergeable}

\* reactions: approved-and-green: {auto: true, action: notify, priority: action}
ApprovedAndGreenReaction ==
  [auto |-> TRUE, action |-> "notify", message |-> FALSE, priority |-> "action",
   retries |-> NoRetries, escalateAfter |-> NoEscalateAfter]

InitMerge ==
  /\ now = 0
  /\ seenDeliveries = [d \in DeliveryKeys |-> NoTs]
  /\ handlers = [h \in 1..MaxDeliveries |-> NewHandler]
  /\ sessions = <<WorkingSession>>
  /\ reactions = [DefaultReactions EXCEPT !["approved-and-green"] = ApprovedAndGreenReaction]
  /\ LifeConstructed
  /\ NothingObserved
  /\ ticks = MergeTicks /\ checks = 0 /\ restarts = 0

NextMerge ==
  \/ TimerTick
  \/ \E run \in polls : PollListReturns(run, {})
  \/ \E t \in tasks : \E p \in MergeProbes : ProbeReturns(t, p)
  \/ \E t \in tasks : ReactionReturns(t, TRUE)
  \/ \E run \in polls : PollSettled(run)

SpecMerge == InitMerge /\ [][NextMerge]_vars

(***************************************************************************)
(* verifySignature under every signature header of up to MaxSigLen         *)
(* characters, with the github prefix before it, after it or absent: hex   *)
(* digits in lower and upper case and a character that is no hex digit.    *)
(***************************************************************************)
SigChars == {"a", "1", "A", "g"}

SignatureTexts == UNION {[1..n -> SigChars] : n \in 0..MaxSigLen}

VerifyRequests ==
  {IssueRequest("d1", <<"4">>, "bug", sig) :
     sig \in SignatureTexts \cup {GithubPrefix \o t : t \in SignatureTexts}
                            \cup {t \o GithubPrefix : t \in SignatureTexts}}

PlaneVerifyRequests ==
  {PlaneRequest("d1", <<"7">>, "update", {}, sig) : sig \in SignatureTexts}

NextVerify ==
  \/ \E h \in 1..MaxDeliveries : \E req \in VerifyRequests : Post(h, req)
  \/ \E h \in 1..MaxDeliveries : \E req \in PlaneVerifyRequests : PlanePost(h, req)

SpecVerify == InitSpawn /\ [][NextVerify]_vars

(***************************************************************************)
(* prp-prompt-template.ts.  A prompt is a sequence of lines, a line a       *)
(* sequence of words; of the fixed text the headings and the lines that    *)
(* name a command are kept.                                                *)
(***************************************************************************)
PRP_LIFECYCLE_PROMPT ==
  << <<"##", "PRP", "Methodology">>,
     <<"###", "Lifecycle", "Steps">>,
     <<"###", "Rules">> >>

TaskSection(issueId, projectName) ==
  << <<"##", "Your", "Task">>,
     <<"Project:", projectName>>,
     <<"Issue:", issueId>>,
     <<"/prp-issue-investigate", issueId>>,
     <<"/prp-plan">>, <<"/prp-ralph">>, <<"/prp-pr">>, <<"/prp-review">> >>

PlanGateSection ==
  << <<"##", "Plan", "Approval", "Gate">>,
     <<"IMPORTANT:", "After", "creating", "the", "plan", "STOP", "and", "wait.">> >>

PrGateSection ==
  << <<"##", "PR", "Review", "Gate">>,
     <<"IMPORTANT:", "After", "creating", "the", "PR", "STOP", "and", "wait.">> >>

\* sections.join("\n\n"): an empty line between two sections
RECURSIVE join(_)
join(sections) ==
  IF sections = <<>> THEN <<>>
  ELSE IF Len(sections) = 1 THEN sections[1]
  ELSE sections[1] \o << <<>> >> \o join(Tail(sections))

buildPrpPrompt_PrGateUnderPlanGate(config) ==
  join(<<PRP_LIFECYCLE_PROMPT, TaskSection(config.issueId, config.projectName)>>
       \o (IF config.prp.gates.plan
           THEN <<PlanGateSection>> \o (IF config.prp.gates.pr THEN <<PrGateSection>> ELSE <<>>)
           ELSE <<>>))

buildPrpPrompt(config) ==
  join(<<PRP_LIFECYCLE_PROMPT, TaskSection(config.issueId, config.projectName)>>
       \o (IF config.prp.gates.plan THEN <<PlanGateSection>> ELSE <<>>)
       \o (IF config.prp.gates.pr THEN <<PrGateSection>> ELSE <<>>))

PrpPromptConfigs ==
  [prp : [gates : [plan : BOOLEAN, pr : BOOLEAN]],
   issueId : {"#42", "INT-1343"},
   projectName : {"app", "desk"}]

\* the prompt of session i is built from config
PromptBuilt(i, config) ==
  /\ out[i].prompt = NoPrompt
  /\ out' = [out EXCEPT ![i].prompt =
               [prp |-> config.prp, issueId |-> config.issueId,
                projectName |-> config.projectName, text |-> buildPrpPrompt(config)]]
  /\ emitted' = {}
  /\ UNCHANGED <<now, seenDeliveries, handlers, sessions, reactions, states, prpPhases,
                 reactionTrackers, polling, allCompleteEmitted, ticks, polls, tasks,
                 checks, restarts>>

NextPrompt == \E i \in SessionIds : \E config \in PrpPromptConfigs : PromptBuilt(i, config)

SpecPrompt == InitSpawn /\ [][NextPrompt]_vars

(***************************************************************************)
(* The all-complete reaction over a session at work that is joined by a    *)
(* second session; a check may find the runtime of either dead.            *)
(***************************************************************************)
\* sessionManager.spawn (spec 4.F): the metadata of the new session is
\* persisted with status spawning
SessionSpawned ==
  /\ Len(sessions) < MaxSessions
  /\ sessions' = Append(sessions, NewSession("app", <<"4">>))
  /\ emitted' = {}
  /\ UNCHANGED <<now, seenDeliveries, handlers, lifeVars>>

ProbeDead == [ProbeOpenPr EXCEPT !.alive = "false"]

CompleteProbes == {ProbeOpenPr, ProbeMerged, ProbeDead}

InitComplete ==
  /\ now = 0
  /\ seenDeliveries = [d \in DeliveryKeys |-> NoTs]
  /\ handlers = [h \in 1..MaxDeliveries |-> NewHandler]
  /\ sessions = <<WorkingSession>>
  /\ reactions = DefaultReactions
  /\ LifeConstructed
  /\ NothingObserved
  /\ ticks = CompleteTicks /\ checks = 0 /\ restarts = 0

NextComplete ==
  \/ TimerTick
  \/ \E run \in polls : PollListReturns(run, {})
  \/ \E t \in tasks : \E p \in CompleteProbes : ProbeReturns(t, p)
  \/ \E t \in tasks : ReactionReturns(t, TRUE)
  \/ \E run \in polls : PollSettled(run)
  \/ \E run \in polls : PollReturns(run)
  \/ SessionSpawned

SpecComplete == InitComplete /\ [][NextComplete]_vars

(***************************************************************************)
(* determineStatus under every answer of the plugins, failures included,   *)
(* for a session in each of a few statuses, with and without a pull        *)
(* request and a runtime handle.                                           *)
(***************************************************************************)
AllProbes ==
  [alive : {"true", "false", "throws"},
   output : {"text", "empty", "throws"},
   activity : {"active", "waiting_input"},
   procAlive : {"true", "false", "throws"},
   prState : {"open", "merged", "closed", "throws"},
   ci : {"passing", "failing", "throws"},
   review : {"none", "approved", "changes_requested", "pending", "throws"},
   mergeable : {"true", "false", "throws"}]

ProbedSessions ==
  {[WorkingSession EXCEPT !.status = st, !.pr = pr, !.runtimeHandle = rh] :
     st \in {"spawning", "working", "stuck", "needs_input", "pr_open", "approved"},
     pr \in BOOLEAN, rh \in BOOLEAN}

InitProbe ==
  /\ now = 0
  /\ seenDeliveries = [d \in DeliveryKeys |-> NoTs]
  /\ handlers = [h \in 1..MaxDeliveries |-> NewHandler]
  /\ sessions \in {<<session>> : session \in ProbedSessions}
  /\ reactions = DefaultReactions
  /\ LifeConstructed
  /\ NothingObserved
  /\ ticks = ProbeTicks /\ checks = 0 /\ restarts = 0

NextProbe ==
  \/ TimerTick
  \/ \E run \in polls : PollListReturns(run, {})
  \/ \E t \in tasks : \E p \in AllProbes : ProbeReturns(t, p)
  \/ \E t \in tasks : \E ok \in BOOLEAN : ReactionReturns(t, ok)
  \/ \E run \in polls : PollSettled(run)

SpecProbe == InitProbe /\ [][NextProbe]_vars

(***************************************************************************)
(* The reaction trackers of two sessions at work, each with a pull         *)
(* request, under the periodic poll alone: CI fails, a review requests     *)
(* changes, the agent waits for input, under each of a few configurations  *)
(* of the changes-requested reaction.                                      *)
(***************************************************************************)
ProbeChangesRequested == [ProbeOpenPr EXCEPT !.review = "changes_requested"]

ProbeWaiting == [ProbeOpenPr EXCEPT !.activity = "waiting_input"]

TrackProbes == {ProbeOpenPr, ProbeCiFailing, ProbeChangesRequested, ProbeWaiting}

\* reactions: changes-requested: {auto: true, action: send-to-agent, message}
ChangesRequestedReaction ==
  [auto |-> TRUE, action |-> "send-to-agent", message |-> TRUE, priority |-> None,
   retries |-> NoRetries, escalateAfter |-> NoEscalateAfter]

ChangesRequestedReactions ==
  {NoReaction,
   ChangesRequestedReaction,
   [ChangesRequestedReaction EXCEPT !.auto = FALSE],
   [ChangesRequestedReaction EXCEPT !.auto = FALSE, !.action = "notify"]}

InitTrack ==
  /\ now = 0
  /\ seenDeliveries = [d \in DeliveryKeys |-> NoTs]
  /\ handlers = [h \in 1..MaxDeliveries |-> NewHandler]
  /\ sessions = <<WorkingSession,
                  [NewSession("app", <<"4">>) EXCEPT !.status = "working", !.pr = TRUE]>>
  /\ \E c \in ChangesRequestedReactions :
       reactions = [DefaultReactions EXCEPT !["changes-requested"] = c]
  /\ LifeConstructed
  /\ NothingObserved
  /\ ticks = TrackTicks /\ checks = 0 /\ restarts = 0

NextTrack ==
  \/ TimerTick
  \/ \E run \in polls : PollListReturns(run, {})
  \/ \E t \in tasks : \E p \in TrackProbes : ProbeReturns(t, p)
  \/ \E t \in tasks : \E ok \in BOOLEAN : ReactionReturns(t, ok)
  \/ \E run \in polls : PollSettled(run)

SpecTrack == InitTrack /\ [][NextTrack]_vars

(***************************************************************************)
(* The single-flight guard over time: the poll over one session at work    *)
(* whose pull request may be merged, where sessionManager.list may fail    *)
(* and the metadata write of a transition may throw, and where every call  *)
(* the poll awaits returns or fails in the end.                            *)
(***************************************************************************)
InitGuard ==
  /\ now = 0
  /\ seenDeliveries = [d \in DeliveryKeys |-> NoTs]
  /\ handlers = [h \in 1..MaxDeliveries |-> NewHandler]
  /\ sessions = <<WorkingSession>>
  /\ reactions = DefaultReactions
  /\ LifeConstructed
  /\ NothingObserved
  /\ ticks = GuardTicks /\ checks = 0 /\ restarts = 0

ListCompletes == \E run \in polls : PollListReturns(run, {}) \/ PollListFails(run)

CheckCompletes ==
  \E t \in tasks : \E p \in LifeProbes : ProbeReturns(t, p) \/ TransitionThrows(t, p)

NotifyCompletes == \E t \in tasks : ReactionReturns(t, TRUE)

ChecksSettle == \E run \in polls : PollSettled(run)

AllCompleteReturns == \E run \in polls : PollReturns(run)

NextGuard ==
  \/ TimerTick
  \/ ListCompletes
  \/ CheckCompletes
  \/ NotifyCompletes
  \/ ChecksSettle
  \/ AllCompleteReturns

SpecGuard ==
  /\ InitGuard /\ [][NextGuard]_vars
  /\ WF_vars(ListCompletes) /\ WF_vars(CheckCompletes) /\ WF_vars(NotifyCompletes)
  /\ WF_vars(ChecksSettle) /\ WF_vars(AllCompleteReturns)

(***************************************************************************)
(* A manager that has just been constructed over two sessions at work: the *)
(* runtime of the first died before the first tick, the runtime of the     *)
(* second dies between the first tick and the second.  The timer fires for *)
(* ever and every call the poll awaits returns in the end.                 *)
(***************************************************************************)
DeadFleet ==
  <<WorkingSession,
    [NewSession("app", <<"4">>) EXCEPT !.status = "working", !.pr = TRUE]>>

\* the runtimes sessionManager.list finds dead in the poll of the given tick
DeadAt(run) == IF run.id = DeadTicks THEN {1} ELSE DOMAIN DeadFleet

InitDead ==
  /\ now = 0
  /\ seenDeliveries = [d \in DeliveryKeys |-> NoTs]
  /\ handlers = [h \in 1..MaxDeliveries |-> NewHandler]
  /\ sessions = DeadFleet
  /\ reactions \in {DefaultReactions,
                    [DefaultReactions EXCEPT !["agent-exited"] = ApprovedAndGreenReaction]}
  /\ LifeConstructed
  /\ NothingObserved
  /\ ticks = DeadTicks /\ checks = 0 /\ restarts = 0

\* setInterval keeps firing: TimerTick, where the ticks after the first
\* DeadTicks - 1 are no longer told apart
TimerRepeats ==
  /\ ticks' = IF ticks > 1 THEN ticks - 1 ELSE ticks
  /\ IF polling THEN UNCHANGED <<polling, polls>>
     ELSE /\ polling' = TRUE
          /\ polls' = polls \cup {[id |-> ticks, pc |-> "list", list |-> <<>>]}
  /\ emitted' = {}
  /\ UNCHANGED <<now, seenDeliveries, handlers, sessions, reactions, states, prpPhases,
                 reactionTrackers, allCompleteEmitted, tasks, checks, restarts, out>>

DeadListCompletes == \E run \in polls : PollListReturns(run, DeadAt(run))

\* isAlive answers false exactly for the runtimes the list found dead
DeadCheckCompletes ==
  \E t \in tasks : \E p \in CompleteProbes :
    /\ (p = ProbeDead) <=> (t.view.status = "killed")
    /\ ProbeReturns(t, p)

NextDead ==
  \/ TimerRepeats
  \/ DeadListCompletes
  \/ DeadCheckCompletes
  \/ NotifyCompletes
  \/ ChecksSettle
  \/ AllCompleteReturns

SpecDead ==
  /\ InitDead /\ [][NextDead]_vars
  /\ WF_vars(TimerRepeats) /\ WF_vars(DeadListCompletes) /\ WF_vars(DeadCheckCompletes)
  /\ WF_vars(NotifyCompletes) /\ WF_vars(ChecksSettle) /\ WF_vars(AllCompleteReturns)

(***************************************************************************)
(* The two endpoints under requests that would have an effect if they      *)
(* were let through, each with a signature that verifies and with          *)
(* signatures that do not: a label that triggers a spawn, an approval      *)
(* comment on the issue of a plan-gated session, a new plane issue.        *)
(***************************************************************************)
Signatures == {GoodSig, BadSig, NoSig, BareSig("p1ane")}

EffectiveRequests ==
  {IssueRequest("d1", <<"4">>, "agent-work", sig) : sig \in Signatures}
  \cup {CommentRequest("d2", <<"4", "2">>, <<"approved">>, sig) : sig \in Signatures}

PlaneSignatures == {BareSig("p1ane"), BareSig("s3cret"), NoSig, GoodSig}

EffectivePlaneRequests ==
  {PlaneRequest("d1", <<"7">>, "create", {}, sig) : sig \in PlaneSignatures}

NextUnsigned ==
  \/ \E h \in 1..MaxDeliveries : \E req \in EffectiveRequests : Post(h, req)
  \/ \E h \in 1..MaxDeliveries : \E req \in EffectivePlaneRequests : PlanePost(h, req)
  \/ \E h \in 1..MaxDeliveries : ListReturns(h)
  \/ \E h \in 1..MaxDeliveries : SpawnReturns(h)
  \/ \E h \in 1..MaxDeliveries : CommentListReturns(h)
  \/ \E h \in 1..MaxDeliveries : CommentSendReturns(h)

SpecUnsigned == InitApprove /\ [][NextUnsigned]_vars

(***************************************************************************)
(* The two endpoints under verified deliveries for each configured         *)
(* repository and workspace: which project's secret verifies a delivery    *)
(* and which project it spawns in.                                         *)
(***************************************************************************)
ProjectRequests ==
  {IssueRequest(d, <<"4">>, "agent-work", GoodSig) : d \in DeliveryIds}
  \cup {[IssueRequest("d1", <<"7">>, "agent-work", GoodSig) EXCEPT !.repo = "org/lab"]}

ProjectPlaneRequests ==
  {[PlaneRequest(d, <<"7">>, "create", {}, BareSig(Projects[i].plane.secret))
      EXCEPT !.workspace = Projects[i].plane.workspaceId] :
     d \in DeliveryIds, i \in {j \in DOMAIN Projects : Projects[j].plane # NoPlane}}

NextSelect ==
  \/ \E h \in 1..MaxDeliveries : \E req \in ProjectRequests : Post(h, req)
  \/ \E h \in 1..MaxDeliveries : \E req \in ProjectPlaneRequests : PlanePost(h, req)
  \/ \E h \in 1..MaxDeliveries : ListReturns(h)
  \/ \E h \in 1..MaxDeliveries : SpawnReturns(h)

SpecSelect == InitSpawn /\ [][NextSelect]_vars

(***************************************************************************)
(* Approval comments on the issues of repository org/app while the only    *)
(* plan-gated session belongs to project lab, whose repository is org/lab  *)
(* and whose issue has the same number.                                    *)
(***************************************************************************)
InitForeign ==
  /\ now = 0
  /\ seenDeliveries = [d \in DeliveryKeys |-> NoTs]
  /\ handlers = [h \in 1..MaxDeliveries |-> NewHandler]
  /\ sessions = <<[GatedSession EXCEPT !.projectId = "lab"]>>
  /\ reactions = DefaultReactions
  /\ LifeConstructed
  /\ NothingObserved
  /\ ticks = 0 /\ checks = 0 /\ restarts = 0

NextForeign ==
  \/ \E h \in 1..MaxDeliveries : \E req \in CommentRequests : Post(h, req)
  \/ \E h \in 1..MaxDeliveries : CommentListReturns(h)
  \/ \E h \in 1..MaxDeliveries : CommentListFails(h)
  \/ \E h \in 1..MaxDeliveries : CommentSendReturns(h)
  \/ \E h \in 1..MaxDeliveries : CommentSendFails(h)

SpecForeign == InitForeign /\ [][NextForeign]_vars

(***************************************************************************)
(* Properties of the spawn pipeline.                                       *)
(***************************************************************************)
PreTriggerResults ==
  {"Invalid JSON", "no repository", "no project config for repo",
   "no project config for workspace", "Invalid signature",
   "not an actionable event", "not an approval comment"}

DecisionResults == {"decision", "spawned", "spawn failed"}

\* the handler has called evaluateTriggers
ReachedTriggers(h) ==
  /\ handlers[h].pc \in {"list", "spawn", "done"}
  /\ handlers[h].result \notin PreTriggerResults
  /\ handlers[h].event.event \notin {None, "issue.comment"}

Spawned(h) == handlers[h].sessionId # 0

NonTerminal(i) == sessions[i].status \notin TerminalStatus

\* C1 (as claimed): of the sessions spawned by deliveries with distinct
\* delivery ids for the same project and the same issue, at most one is
\* non-terminal, in every interleaving of the handlers.
C1_AtMostOneActiveSession ==
  \A h1, h2 \in 1..MaxDeliveries :
    ( /\ h1 # h2
      /\ Spawned(h1) /\ Spawned(h2)
      /\ handlers[h1].event.deliveryId # handlers[h2].event.deliveryId
      /\ handlers[h1].projectId = handlers[h2].projectId
      /\ handlers[h1].event.issue = handlers[h2].event.issue )
    => ~(NonTerminal(handlers[h1].sessionId) /\ NonTerminal(handlers[h2].sessionId))

GroupOf(d) ==
  {h \in 1..MaxDeliveries : ReachedTriggers(h) /\ handlers[h].event.deliveryId = d}

WithinTTL(G) ==
  \A h1, h2 \in G : handlers[h2].arrived - handlers[h1].arrived <= DELIVERY_TTL_MS

First(G) == CHOOSE h \in G : \A g \in G : h <= g

\* the event of handler h matches a project and one of its trigger rules
MatchesRule(h) ==
  LET p == findProject(handlers[h].event)
  IN  p # 0 /\ FirstMatchingRule(Projects[p].triggers, handlers[h].event, 1) # 0

\* C2: of the deliveries that share a delivery id and arrive within the
\* dedup TTL, exactly one - the first - passes the dedup check and the
\* others are skipped as duplicates; the first gets the spawn decision
\* whenever its event matches a rule and the session list neither fails nor
\* shows an active session on the issue.
C2_OneDeliveryReachesSpawn ==
  \A d \in DeliveryIds :
    LET G == GroupOf(d)
    IN  (G # {} /\ WithinTTL(G)) =>
          /\ \A h \in G \ {First(G)} : handlers[h].result = "duplicate"
          /\ handlers[First(G)].result # "duplicate"
          /\ Cardinality({h \in G : handlers[h].result \in DecisionResults}) <= 1
          /\ ( /\ MatchesRule(First(G))
               /\ handlers[First(G)].pc # "list"
               /\ handlers[First(G)].result \notin {"active session", "list failed"} )
             => handlers[First(G)].result \in DecisionResults

C2_Witness ==
  \E h1, h2 \in 1..MaxDeliveries :
    /\ h1 < h2
    /\ handlers[h1].event.deliveryId = handlers[h2].event.deliveryId
    /\ handlers[h2].arrived > handlers[h1].arrived
    /\ handlers[h2].arrived - handlers[h1].arrived <= DELIVERY_TTL_MS
    /\ handlers[h1].result = "spawned"
    /\ handlers[h2].result = "duplicate"

(***************************************************************************)
(* Properties of the lifecycle manager.                                    *)
(***************************************************************************)
\* C3: poll ticks are single-flight - never are two executions of the body
\* of pollAll in progress, and a tick that fires while a poll is in progress
\* lists nothing, checks nothing and changes nothing.
C3_PollSingleFlight ==
  [][ /\ Cardinality(polls') <= 1
      /\ (ticks' # ticks /\ polling) =>
           /\ UNCHANGED <<polling, polls, tasks, sessions, states, prpPhases,
                          reactionTrackers, allCompleteEmitted, out>>
           /\ emitted' = {} ]_vars

\* a tick has fired while the poll of an earlier tick is still in progress
C3_Witness ==
  /\ polling
  /\ \E run \in polls : run.id > ticks + 1

\* C4 (as claimed): the writeback comment of a status transition is posted
\* at most once - only the step that makes the persisted status become st
\* posts the comment for st - whatever the interleaving of poll ticks and
\* direct check(sessionId) calls.
C4_WritebackOncePerTransition ==
  [][ \A i \in DOMAIN sessions : \A st \in Status :
        <<i, "comment", "status", st>> \in emitted' => sessions[i].status # st ]_vars

\* C5 (as claimed): the plan-gate comment and the plan-gate notification of
\* a session are posted once, and a session whose persisted prpPhase is
\* plan_gate has had exactly one gate comment.
C5_PlanGateOnce ==
  \A i \in DOMAIN sessions :
    /\ out[i].gate <= 1
    /\ out[i].gateNotif <= 1
    /\ sessions[i].prpPhase = "plan_gate" => out[i].gate = 1

\* C10: once the orchestrator has restarted while the persisted prpPhase of
\* a session was plan_gate, no step posts the plan-gate comment or sends the
\* prp.plan_gate notification for that session.
C10_NoGateAfterRestart ==
  [][ \A i \in DOMAIN sessions :
        out[i].restartedGated =>
          /\ out'[i].gate = out[i].gate
          /\ out'[i].gateNotif = out[i].gateNotif
          /\ \A e \in emitted' : e[1] = i => e[3] \notin {"plan-gate", "prp.plan_gate"} ]_vars

\* after such a restart a poll has seen plan_gate and recorded it
C10_Witness ==
  \E i \in DOMAIN sessions :
    /\ out[i].restartedGated
    /\ restarts < LifeRestarts
    /\ sessions[i].prpPhase = "plan_gate"
    /\ prpPhases[i] = "plan_gate"

(***************************************************************************)
(* Properties of the reaction engine.                                      *)
(***************************************************************************)
\* the markers of the invocations of the reaction of tracker key k in a step
Invocations(k) ==
  {e \in emitted' : e[1] = k[1] /\ e[2] = "reaction" /\ e[3] = k[2]}

\* the attempts the invocation found: the all-complete tracker is pruned
\* by the poll before it is used
AttemptsFound(k) == IF k[1] = SystemId THEN 0 ELSE reactionTrackers[k].attempts

\* the escalation rule in the words of the claim; positive: the duration of
\* escalateAfter counts only when it parses to a positive number of ms
EscalationDue(tr, cfg, positive) ==
  \/ cfg.retries # NoRetries /\ tr.attempts > cfg.retries
  \/ /\ cfg.escalateAfter.kind = "string"
     /\ now - tr.firstTriggered > parseDuration(cfg.escalateAfter.str)
     /\ positive => parseDuration(cfg.escalateAfter.str) > 0
  \/ cfg.escalateAfter.kind = "number" /\ tr.attempts > cfg.escalateAfter.n

ReactionRule(positive) ==
  \A k \in DOMAIN reactionTrackers :
    Invocations(k) # {} =>
      LET tr == reactionTrackers'[k]
          due == EscalationDue(tr, reactions[k[2]], positive)
      IN  /\ tr.attempts = AttemptsFound(k) + 1
          /\ \A e \in Invocations(k) : (e[4] = "escalated") <=> due
          /\ due => /\ \A e \in emitted' :
                         e[1] = k[1] => /\ e[2] # "send"
                                        /\ e[3] # "reaction.triggered"
                    /\ \E e \in emitted' : e[1] = k[1] /\ e[3] = "reaction.escalated"

\* C6 (as claimed): every invocation of a reaction first adds one to
\* attempts, escalates iff attempts > retries, or the time since
\* firstTriggered exceeds the parsed escalateAfter, or attempts exceeds a
\* numeric escalateAfter, and executes no action when it escalates.
C6_EscalationAsClaimed == [][ReactionRule(FALSE)]_vars

\* C6 (amended): the same, where the time since firstTriggered counts only
\* when escalateAfter parses to a positive duration.
C6_EscalationRule == [][ReactionRule(TRUE)]_vars

\* a second invocation on the same tracker has escalated on elapsed time
C6_Witness ==
  /\ <<1, "reaction", "ci-failed", "escalated">> \in emitted
  /\ reactions["ci-failed"].escalateAfter.kind = "string"
  /\ reactionTrackers[<<1, "ci-failed">>].attempts = 2
  /\ now - reactionTrackers[<<1, "ci-failed">>].firstTriggered > 0

\* C7 (as claimed): with ci-failed = {send-to-agent, retries 2, priority
\* warning}, the first two transitions of a session into ci_failed send the
\* message to the agent, and the third notifies reaction.escalated with
\* priority urgent and sends nothing.
C7_ThirdCiFailureEscalates ==
  [][ reactions["ci-failed"] = CiFailedReaction =>
        \A i \in DOMAIN sessions :
          out'[i].ciFailed = out[i].ciFailed + 1 =>
            /\ out'[i].ciFailed \in {1, 2} => <<i, "send", "reaction", "">> \in emitted'
            /\ out'[i].ciFailed = 3 =>
                 /\ <<i, "notify", "reaction.escalated", "urgent">> \in emitted'
                 /\ <<i, "send", "reaction", "">> \notin emitted' ]_vars

\* C8 (as claimed): a failed send escalates nothing and leaves the tracker
\* as the invocation advanced it, and a poll of a later tick that finds the
\* session still in the triggering status invokes the reaction again.
C8_FailedSendRetried ==
  [][ /\ \A i \in DOMAIN sessions :
           <<i, "send-result", "failed", "">> \in emitted' =>
             /\ reactionTrackers' = reactionTrackers
             /\ reactionTrackers[<<i, "ci-failed">>].attempts >= 1
             /\ \A e \in emitted' : e[3] # "reaction.escalated"
      /\ \A t \in tasks :
           ( /\ t.pc = "probe" /\ t \notin tasks'
             /\ t.owner[1] = "poll" /\ t.owner[2] <= out[t.sid].sendFailedAt
             /\ t.old = "ci_failed"
             /\ sessions[t.sid].status = "ci_failed"
             /\ sessions'[t.sid].status = "ci_failed" )
           => \E e \in emitted' : e[1] = t.sid /\ e[2] = "reaction" ]_vars

(***************************************************************************)
(* Properties of the gate resume path.                                     *)
(***************************************************************************)
\* C9 (as claimed): whatever the number, order and interleaving of the
\* approval comments on the issue of a plan-gated session, the session
\* receives the resume message at most once.
C9_ResumeAtMostOnce == \A i \in DOMAIN sessions : out[i].resume <= 1

(***************************************************************************)
(* Properties of a restart.                                                *)
(***************************************************************************)
\* C11 (as claimed): when the orchestrator restarts while its maps agree
\* with the metadata of a session, and the first poll after the restart
\* finds the status and the prpPhase of the session as they were, that poll
\* sends no notification and posts no tracker comment for the session.
C11_QuietFirstPollAfterRestart ==
  [][ \A t \in tasks :
        ( /\ t.pc = "probe" /\ t \notin tasks' /\ restarts' = restarts
          /\ t.owner = <<"poll", out[t.sid].atRestart.ticks>>
          /\ t.view.metaStatus = out[t.sid].atRestart.status
          /\ t.view.prpPhase = out[t.sid].atRestart.prpPhase
          /\ sessions'[t.sid].status = out[t.sid].atRestart.status )
        => \A e \in emitted' : e[1] = t.sid => e[2] \notin {"comment", "notify"} ]_vars

(***************************************************************************)
(* Properties of the answer of the webhook endpoints.                      *)
(***************************************************************************)
\* the signature header of the request of handler h is the digest of its
\* body under a secret configured for the endpoint, in the endpoint's form
SignatureVerifies(h) ==
  IF handlers[h].via = "github"
  THEN \E i \in DOMAIN Projects :
         verifySignature(handlers[h].req.sig, Projects[i].secret, GithubPrefix)
  ELSE \E i \in DOMAIN Projects :
         /\ Projects[i].plane.secret # None
         /\ verifySignature(handlers[h].req.sig, Projects[i].plane.secret, NoPrefix)

Answered(h) == handlers[h].pc = "done"

\* C12 (as claimed): every request to the github or the plane endpoint whose
\* signature header is missing or does not verify is answered with 401,
\* whatever its body and its repository or workspace.
C12_BadSignatureIs401 ==
  \A h \in 1..MaxDeliveries :
    (Answered(h) /\ ~SignatureVerifies(h)) => handlers[h].http = 401

\* C13 (as claimed): a delivery with a verifying signature and a parseable
\* body is answered with 200 whatever happens afterwards; 401 answers only
\* a signature failure and 400 only an unparseable body.
C13_VerifiedIs200 ==
  \A h \in 1..MaxDeliveries :
    Answered(h) =>
      /\ (SignatureVerifies(h) /\ handlers[h].req.json) => handlers[h].http = 200
      /\ handlers[h].http = 401 => ~SignatureVerifies(h)
      /\ handlers[h].http = 400 => ~handlers[h].req.json

\* the answers that are computed from the parsed body
ParseResults ==
  {"Invalid JSON", "no repository", "no project config for repo",
   "no project config for workspace"}

\* C14 (as claimed): no result of parsing the body (the 400 answer, the
\* missing repository, the outcome of the secret lookup) is produced for a
\* request whose signature does not verify.
C14_NoParseBeforeVerification ==
  \A h \in 1..MaxDeliveries :
    (Answered(h) /\ ~SignatureVerifies(h)) => handlers[h].result \notin ParseResults

(***************************************************************************)
(* Properties of the status of a session.                                  *)
(***************************************************************************)
\* C15 (as claimed): once the tracked or the persisted status of a session
\* is merged, killed, terminated, errored or done, no step of a poll or of
\* a check(sessionId) changes it.
C15_TerminalAbsorbing ==
  [][ restarts' = restarts =>
        \A i \in DOMAIN sessions :
          /\ states[i] \in TerminalStatus => states'[i] = states[i]
          /\ sessions[i].status \in TerminalStatus =>
                sessions'[i].status = sessions[i].status ]_vars

\* the position of a status along spawning -> working -> PR branch ->
\* {ci_failed | review_pending | approved} -> mergeable -> merged
Rank(status) ==
  CASE status = "spawning" -> 0
    [] status \in {"working", "needs_input", "stuck"} -> 1
    [] status = "pr_open" -> 2
    [] status \in {"ci_failed", "review_pending", "changes_requested", "approved"} -> 3
    [] status = "mergeable" -> 4
    [] OTHER -> 5

Advances(old, new) ==
  \/ new \in TerminalStatus
  \/ new = "working" /\ old \in {"needs_input", "stuck"}
  \/ old \notin TerminalStatus /\ Rank(old) <= Rank(new)

\* C16 (as claimed): every change of the persisted status of a session
\* made by the lifecycle manager goes to a status that is not earlier along
\* the DAG, or to a terminal status, or back to working from needs_input or
\* stuck.
C16_StatusAdvances ==
  [][ \A i \in DOMAIN sessions :
        sessions'[i].status # sessions[i].status =>
          Advances(sessions[i].status, sessions'[i].status) ]_vars

(***************************************************************************)
(* Properties of evaluateTriggers.                                         *)
(***************************************************************************)
\* handler h calls evaluateTriggers in this step
Calls(h) ==
  /\ handlers[h].pc = "new" /\ handlers'[h].pc # "new"
  /\ handlers'[h].result \notin PreTriggerResults
  /\ handlers'[h].event.event \notin {None, "issue.comment"}

\* the event has the fields evaluateTriggers reads
WellFormed(event) ==
  /\ event.issue # NoIssue
  /\ event.provider = "plane" => event.repo # Undefined

\* the needle occurs in the string
Appears(needle, hay) ==
  \E k \in 1..Len(hay) :
    /\ k + Len(needle) - 1 <= Len(hay)
    /\ \A j \in 1..Len(needle) : hay[k + j - 1] = needle[j]

ProjectMatches(i, event) ==
  IF event.provider = "github" THEN Projects[i].repo = event.repo
  ELSE /\ Projects[i].plane.workspaceId # <<>>
       /\ Appears(Projects[i].plane.workspaceId, event.repo)

Least(S) == CHOOSE n \in S : \A m \in S : n <= m

NullResults == {"duplicate", "no project", "no rule", "active session"}

RulesOf(h) ==
  Projects[CHOOSE i \in DOMAIN Projects : Projects[i].id = handlers[h].projectId].triggers

TriedRules(h) ==
  /\ handlers[h].projectId # None
  /\ handlers[h].result = "no rule" \/ handlers[h].rule # 0

\* handler h found the first of the rules that match by Matches(_, _), or
\* none where none matches
FirstBy(Matches(_, _), h) ==
  LET e == handlers[h].event
      rules == RulesOf(h)
  IN  IF handlers[h].rule = 0 THEN \A k \in DOMAIN rules : ~Matches(rules[k], e)
      ELSE /\ Matches(rules[handlers[h].rule], e)
           /\ \A k \in 1..(handlers[h].rule - 1) : ~Matches(rules[k], e)

MatchesAsClaimed(rule, event) ==
  /\ rule.on = event.event
  /\ rule.label # None => event.label = rule.label
  /\ rule.assignee # None => event.assignee = rule.assignee

MatchesByType(rule, event) ==
  /\ rule.on = event.event
  /\ (rule.on = "issue.labeled" /\ rule.label # None) => event.label = rule.label
  /\ (rule.on = "issue.assigned" /\ rule.assignee # None) =>
        event.assignee = rule.assignee

\* C18 (as claimed): a rule matches an event iff rule.on = event.event and
\* every filter the rule has equals the field of the event, whatever the
\* event type of the rule.
C18_RuleMatchAsClaimed ==
  \A h \in 1..MaxDeliveries : TriedRules(h) => FirstBy(MatchesAsClaimed, h)

\* C18 (amended): a rule matches an event iff rule.on = event.event and,
\* for a rule on issue.labeled with a label, event.label = rule.label, for
\* a rule on issue.assigned with an assignee, event.assignee =
\* rule.assignee; a filter on a rule of another event type is not compared.
C18_RuleMatch ==
  \A h \in 1..MaxDeliveries : TriedRules(h) => FirstBy(MatchesByType, h)

\* an issue.opened event without label matched by a rule on issue.opened
\* that has a label, and a labeled event refused for its label
C18_Witness ==
  \E h1, h2 \in 1..MaxDeliveries :
    /\ TriedRules(h1) /\ handlers[h1].rule = 1
    /\ RulesOf(h1)[1].on = "issue.opened" /\ RulesOf(h1)[1].label = "agent-work"
    /\ handlers[h1].event.label = None
    /\ TriedRules(h2) /\ handlers[h2].result = "no rule"
    /\ handlers[h2].event.event = "issue.labeled"
    /\ handlers[h2].event.label = "bug"

\* C19 (as claimed): no call of evaluateTriggers raises - not for an event
\* without issue, repo or deliveryId, and not when sessionManager.list
\* fails.
C19_NeverThrows ==
  \A h \in 1..MaxDeliveries : handlers[h].result \notin {"threw", "list failed"}

\* handler h presented its delivery id to the dedup map
Presented(h) == ReachedTriggers(h)

\* C20: a call of evaluateTriggers is refused as a duplicate iff an earlier
\* call presented the same delivery id, was not itself refused as a
\* duplicate, and lies at most 600000 ms back - whatever calls came in
\* between; an id first presented more than 600000 ms ago is fresh again.
C20_RememberedForTTL ==
  \A h2 \in 1..MaxDeliveries :
    Presented(h2) =>
      ( handlers[h2].result = "duplicate" <=>
          \E h1 \in 1..(h2 - 1) :
            /\ Presented(h1)
            /\ handlers[h1].event.deliveryId = handlers[h2].event.deliveryId
            /\ handlers[h1].result # "duplicate"
            /\ handlers[h2].arrived - handlers[h1].arrived <= DELIVERY_TTL_MS )

\* the same id presented again after more than the TTL, and accepted
C20_Witness ==
  \E h1, h2 \in 1..MaxDeliveries :
    /\ h1 < h2
    /\ Presented(h1) /\ Presented(h2)
    /\ handlers[h1].event.deliveryId = handlers[h2].event.deliveryId
    /\ handlers[h2].arrived - handlers[h1].arrived > DELIVERY_TTL_MS
    /\ handlers[h1].result = "decision"
    /\ handlers[h2].result = "decision"

(***************************************************************************)
(* Properties of the gate resume path, one delivery at a time.             *)
(***************************************************************************)
\* session i is a session of the issue of the event
OnIssue(i, event) ==
  /\ sessions[i].issueId # NoIssue
  /\ \/ sessions[i].issueId = IssueUrl(event.issue)
     \/ EndsWith(sessions[i].issueId, <<"/">> \o event.issue)

C22_SendOnlyToActiveGated ==
  [][ \A h \in 1..MaxDeliveries :
        /\ (handlers[h].pc = "clist" /\ handlers'[h].pc = "csend") =>
             /\ APPROVAL_PATTERN(handlers[h].event.commentBody)
             /\ \E i \in DOMAIN sessions :
                  /\ OnIssue(i, handlers[h].event)
                  /\ sessions[i].status \notin TerminalStatus
                  /\ sessions[i].prpPhase = "plan_gate"
        /\ ( /\ handlers[h].pc \in {"new", "clist"}
             /\ handlers'[h].result \in {"not an approval comment",
                                         "no gated session for this issue"} ) =>
             /\ sessions' = sessions /\ out' = out /\ emitted' = {} ]_vars

(***************************************************************************)
(* Properties of the poll over a fleet.                                    *)
(***************************************************************************)
\* the checks of poll run that have not settled yet
Unsettled(run) == {t \in tasks : t.owner = <<"poll", run.id>>}

\* the sessions of the list of poll run are all merged or killed
AllComplete(list) ==
  /\ Len(list) > 0
  /\ \A i \in DOMAIN list : list[i] \in {"merged", "killed"}

\* C23: a check that throws settles that check alone: the other checks of
\* the tick stay in progress and the tick goes on; the tick leaves its
\* checking phase only when every check has settled and then prunes the maps
\* and evaluates all-complete; and when a tick is over the re-entrancy guard
\* is down, so that the next timer tick polls again.
C23_ThrowDoesNotHaltFleet ==
  [][ /\ \A t \in tasks \ tasks' :
           \A u \in tasks \ {t} : u.sid # t.sid => u \in tasks'
      /\ \A run \in polls :
           run.pc = "check" /\ run \notin polls' =>
             /\ Unsettled(run) = {}
             /\ \A i \in SessionIds \ DOMAIN run.list :
                  states'[i] = None /\ prpPhases'[i] = None
             /\ AllComplete(run.list) => allCompleteEmitted'
      /\ polls' = {} => ~polling' ]_vars

\* the check of one session threw, the other session was seen through to
\* merged, and a later tick has run to its end
C23_Witness ==
  \E i, j \in DOMAIN sessions :
    /\ i # j
    /\ out[i].threw /\ ~out[j].threw
    /\ sessions[j].status = "merged"
    /\ ticks = 0 /\ polls = {} /\ ~polling

(***************************************************************************)
(* Properties of the way to mergeable.                                     *)
(***************************************************************************)
\* C24 (as claimed): a session at work whose pull request is found open,
\* green, approved and mergeable reaches mergeable through pr_open and
\* approved: the persisted status becomes mergeable only from approved and
\* approved only from pr_open, the transition into pr_open posts the
\* writeback comment with the pull request, and the transition into
\* mergeable executes the approved-and-green reaction.
C24_ThroughPrOpenAndApproved ==
  [][ \A i \in DOMAIN sessions :
        LET old == sessions[i].status
            new == sessions'[i].status
        IN  /\ (new = "mergeable" /\ old # new) =>
                 /\ old = "approved"
                 /\ <<i, "reaction", "approved-and-green", "notify">> \in emitted'
            /\ (new = "approved" /\ old # new) => old = "pr_open"
            /\ (new = "pr_open" /\ old = "working") =>
                 <<i, "comment", "status", "pr_open">> \in emitted' ]_vars

(***************************************************************************)
(* Properties of verifySignature.                                          *)
(***************************************************************************)
\* the secret and the prefix the endpoint of handler h verifies with
SecretOf(h) ==
  IF handlers[h].via = "github" THEN findSecret(handlers[h].req.repo)
  ELSE findPlaneSecret(handlers[h].req.workspace)

PrefixOf(h) == IF handlers[h].via = "github" THEN GithubPrefix ELSE NoPrefix

\* C25 (as claimed): verifySignature returns true exactly when the header,
\* the prefix removed, is the hex digest of the body under the secret; for
\* every other header, be it missing, malformed or no hex text, of whatever
\* length, it returns false and does not throw.
C25_TrueIffDigest ==
  \A h \in 1..MaxDeliveries :
    handlers[h].pc # "new" =>
      LET sig == handlers[h].req.sig
          same == sig # NoSig /\ ActualOf(sig, PrefixOf(h)) = digest(SecretOf(h))
      IN  /\ ~verifySignatureThrows(sig, SecretOf(h), PrefixOf(h))
          /\ handlers[h].result # "threw"
          /\ verifySignature(sig, SecretOf(h), PrefixOf(h)) <=> same
          /\ handlers[h].http = 401 <=> ~same

(***************************************************************************)
(* Properties of buildPrpPrompt.                                           *)
(***************************************************************************)
\* the second-level headings of a prompt, in their order
RECURSIVE Headings(_)
Headings(text) ==
  IF text = <<>> THEN <<>>
  ELSE (IF text[1] # <<>> /\ text[1][1] = "##" THEN <<text[1]>> ELSE <<>>)
       \o Headings(Tail(text))

\* C26: every prompt opens with the lifecycle block, followed by the task
\* section of the issue; after these comes the Plan Approval Gate section
\* exactly when gates.plan is set and the PR Review Gate section exactly
\* when gates.pr is set, each whatever the other, the plan gate first.
C26_GateSectionsFollowConfig ==
  \A i \in SessionIds :
    out[i].prompt # NoPrompt =>
      LET p == out[i].prompt
          plan == <<"##", "Plan", "Approval", "Gate">>
          pr == <<"##", "PR", "Review", "Gate">>
      IN  /\ SubSeq(p.text, 1, Len(PRP_LIFECYCLE_PROMPT)) = PRP_LIFECYCLE_PROMPT
          /\ Headings(p.text) =
               << <<"##", "PRP", "Methodology">>, <<"##", "Your", "Task">> >>
               \o (IF p.prp.gates.plan THEN <<plan>> ELSE <<>>)
               \o (IF p.prp.gates.pr THEN <<pr>> ELSE <<>>)
          /\ <<"Issue:", p.issueId>> \in {p.text[k] : k \in DOMAIN p.text}

\* a prompt with the PR gate alone and one with both gates were built
C26_Witness ==
  \E i, j \in SessionIds :
    /\ out[i].prompt # NoPrompt /\ out[j].prompt # NoPrompt
    /\ ~out[i].prompt.prp.gates.plan /\ out[i].prompt.prp.gates.pr
    /\ out[j].prompt.prp.gates.plan /\ out[j].prompt.prp.gates.pr

(***************************************************************************)
(* Properties of the all-complete reaction.                                *)
(***************************************************************************)
\* the all-complete reaction is executed in this step
AllCompleteRuns ==
  \E e \in emitted' : e[1] = SystemId /\ e[2] = "reaction" /\ e[3] = "all-complete"

\* the sessions of the list are all in a terminal status
AllTerminal(list) ==
  /\ Len(list) > 0
  /\ \A i \in DOMAIN list : list[i] \in TerminalStatus

\* the reaction has not run yet, or a poll has listed a session in a
\* non-terminal status since it last ran
Armed == \E i \in SessionIds : ~out[i].completed

\* C27 (as claimed): the all-complete reaction runs exactly in the tick that
\* finds the non-empty session list entirely terminal for the first time, or
\* for the first time since a tick found some session non-terminal: it runs
\* in no other step, and it runs in every such tick.
C27_OncePerCompletion ==
  [][ /\ AllCompleteRuns =>
           \E run \in polls :
             run.pc = "check" /\ run \notin polls' /\ AllTerminal(run.list) /\ Armed
      /\ \A run \in polls :
           (run.pc = "check" /\ run \notin polls' /\ AllTerminal(run.list) /\ Armed)
             => AllCompleteRuns ]_vars

(***************************************************************************)
(* Properties of the pruning of the maps.                                  *)
(***************************************************************************)
\* poll run, which has its session list, is over with this step
TickCompletes(run) ==
  /\ run \in polls
  /\ run.pc \in {"check", "react"}
  /\ \A r \in polls' : r.id # run.id

\* after this step the three maps hold nothing for the ids of Ids
NothingTrackedFor(Ids) ==
  /\ \A i \in Ids \cap SessionIds : states'[i] = None /\ prpPhases'[i] = None
  /\ \A i \in Ids : \A k \in ReactionKeys : reactionTrackers'[<<i, k>>] = NoTracker

Probing == {t \in tasks : t.pc = "probe"}

\* the check of session asks the agent plugin whether its process runs
ReachesProcess(session, p) ==
  /\ session.runtimeHandle /\ p.alive # "false"
  /\ p.output = "text" /\ p.activity # "waiting_input"

\* the check of session asks the SCM plugin
ReachesScm(session, p) ==
  /\ session.pr
  /\ \/ ~session.runtimeHandle
     \/ p.alive # "false" /\ ActivityStatus(session, p) = None

\* a probe that the check of session performs fails
ProbeFails(session, p) ==
  \/ session.runtimeHandle /\ p.alive = "throws"
  \/ session.runtimeHandle /\ p.alive # "false" /\ p.output = "throws"
  \/ ReachesProcess(session, p) /\ p.procAlive = "throws"
  \/ /\ ReachesScm(session, p)
     /\ \/ p.prState = "throws"
        \/ p.prState = "open" /\ p.ci = "throws"
        \/ p.prState = "open" /\ p.ci = "passing" /\ p.review = "throws"
        \/ /\ p.prState = "open" /\ p.ci = "passing" /\ p.review = "approved"
           /\ p.mergeable = "throws"

\* C29 (as claimed): a check in which the runtime probe, the agent probe or
\* the SCM probe fails computes the current status of the session; a
\* session that is stuck or needs input is not turned into working.
C29_FailedProbeKeepsStatus ==
  \A t \in Probing : \A p \in AllProbes :
    ProbeFails(t.view, p) => determineStatus(t.view, p) = t.view.status

\* every plugin call of the probe answers
Answers(p) ==
  /\ "throws" \notin {p.alive, p.output, p.procAlive}
  /\ "throws" \notin {p.prState, p.ci, p.review, p.mergeable}

\* the status of a pull request by the outcome the SCM reports, a closed
\* pull request standing for the status closed
ScmOutcome(p, closed) ==
  CASE p.prState = "merged" -> "merged"
    [] p.prState = "closed" -> closed
    [] p.prState = "open" /\ p.ci = "failing" -> "ci_failed"
    [] p.prState = "open" /\ p.ci # "failing" /\ p.review = "changes_requested"
         -> "changes_requested"
    [] /\ p.prState = "open" /\ p.ci # "failing" /\ p.review = "approved"
       /\ p.mergeable = "true" -> "mergeable"
    [] /\ p.prState = "open" /\ p.ci # "failing" /\ p.review = "approved"
       /\ p.mergeable = "false" -> "approved"
    [] p.prState = "open" /\ p.ci # "failing" /\ p.review = "pending"
         -> "review_pending"
    [] OTHER -> "pr_open"

\* the four levels of the priority, each level deciding only when the
\* levels above it did not
InPriority(session, p, status, closed) ==
  LET dead == session.runtimeHandle /\ p.alive = "false"
      seen == session.runtimeHandle /\ p.output = "text"
      asks == seen /\ p.activity = "waiting_input"
      gone == seen /\ p.procAlive = "false"
  IN  /\ dead => status = "killed"
      /\ ~dead /\ asks => status = "needs_input"
      /\ ~dead /\ ~asks /\ gone => status = "killed"
      /\ ~dead /\ ~asks /\ ~gone /\ session.pr
           => status = ScmOutcome(p, closed)
      /\ ~dead /\ ~asks /\ ~gone /\ ~session.pr
           => status = IF session.status \in {"spawning", "stuck", "needs_input"}
                       THEN "working" ELSE session.status

\* C30 (as claimed): with every probe answering, a dead runtime gives
\* killed; otherwise an agent waiting for input gives needs_input and a
\* dead agent process gives killed; otherwise the pull request decides,
\* each SCM outcome giving the status of its name, closed included;
\* otherwise spawning, stuck and needs_input become working and any other
\* status is kept.
C30_PriorityAsClaimed ==
  \A t \in Probing : \A p \in AllProbes :
    Answers(p) => InPriority(t.view, p, determineStatus(t.view, p), "closed")

\* C30 (amended): the same priority, a closed pull request giving killed.
C30_Priority ==
  \A t \in Probing : \A p \in AllProbes :
    Answers(p) => InPriority(t.view, p, determineStatus(t.view, p), "killed")

\* a session without a runtime handle was checked and its closed pull
\* request made it killed
C30_Witness ==
  \E i \in SessionIds :
    /\ i \in DOMAIN states /\ states[i] = "killed"
    /\ sessions[i].pr /\ ~sessions[i].runtimeHandle
    /\ sessions[i].status = "killed"

(***************************************************************************)
(* Properties of the reaction trackers.                                    *)
(***************************************************************************)
ReactionKeyOf(status) ==
  IF statusToEventType(status) = None THEN None
  ELSE eventToReactionKey(statusToEventType(status))

\* this step is the status transition of check t: determineStatus has
\* returned a status other than the old one
Transits(t) ==
  /\ t \in tasks /\ t.pc = "probe" /\ t \notin tasks'
  /\ states'[t.sid] # t.old

\* the step leaves the tracker k as it was
Untouched(k) == reactionTrackers'[k] = reactionTrackers[k]

\* the step has put the tracker k through one executeReaction
Reacted(k) == reactionTrackers'[k] = TrackerAfter(reactionTrackers[k], now)

\* the transition of s from status old: its tracker of the old status is
\* gone, and every other tracker is as it was, but for the tracker of the
\* new status when newKeyMayReact
ClearsOldTracker(s, old, newKeyMayReact) ==
  \A k \in DOMAIN reactionTrackers :
    IF k = <<s, ReactionKeyOf(old)>> THEN reactionTrackers'[k] = NoTracker
    ELSE IF newKeyMayReact /\ k = <<s, ReactionKeyOf(states'[s])>>
    THEN Untouched(k) \/ Reacted(k)
    ELSE Untouched(k)

TransitionNotifications(s) ==
  {c \in emitted' : c[1] = s /\ c[2] = "notify" /\ c[3] # "prp.plan_gate"}

\* the latest step has executed a reaction for session s
ReactionExecuted(s) == \E c \in emitted' : c[1] = s /\ c[2] = "reaction"

\* the latest step has sent the direct notification of the transition of s
DirectNotification(s) ==
  /\ statusToEventType(states'[s]) # None
  /\ <<s, "notify", statusToEventType(states'[s]),
       inferPriority(statusToEventType(states'[s]))>> \in emitted'

NotifiesOnce(s) ==
  LET ev == statusToEventType(states'[s])
      key == ReactionKeyOf(states'[s])
      manual == key # None /\ reactions[key].action # None /\ ~reactions[key].auto
  IN  /\ Cardinality(TransitionNotifications(s)) <= 1
      /\ DirectNotification(s)
           <=> (~ReactionExecuted(s) /\ ev # None /\ inferPriority(ev) # "info")
      /\ manual /\ reactions[key].action = "notify" => ReactionExecuted(s)
      /\ manual /\ reactions[key].action # "notify" => ~ReactionExecuted(s)

\* C32: one status transition notifies the human at most once: the direct
\* notification is sent exactly when no reaction was executed for the
\* transition and the inferred priority is not info; a reaction with auto:
\* false is executed when its action is notify and not executed otherwise.
C32_NotifiedAtMostOnce ==
  [][\A t \in tasks : Transits(t) => NotifiesOnce(t.sid)]_vars

\* the changes-requested reaction is auto: false with action notify; the
\* transition into changes_requested has executed it, and the only
\* notification is the one of the reaction
C32_Witness ==
  /\ ~reactions["changes-requested"].auto
  /\ states[1] = "changes_requested"
  /\ <<1, "reaction", "changes-requested", "notify">> \in emitted
  /\ {c \in emitted : c[1] = 1 /\ c[2] = "notify"}
       = {<<1, "notify", "reaction.triggered", "info">>}

\* the changes-requested reaction is auto: false with action send-to-agent;
\* the transition into changes_requested has not executed it and has sent
\* the direct notification
C32_WitnessManual ==
  /\ ~reactions["changes-requested"].auto
  /\ states[1] = "changes_requested"
  /\ {c \in emitted : c[1] = 1}
       = {<<1, "notify", "review.changes_requested", "warning">>}

(***************************************************************************)
(* Properties of the single-flight guard over time.                        *)
(***************************************************************************)
\* C33: when every call the poll awaits returns or fails in the end, a
\* poll that has set the single-flight guard releases it in the end, also
\* when sessionManager.list fails or a check throws, so that the guard
\* never stays set for ever.
C33_GuardReleased == polling ~> ~polling

\* a poll whose check threw is over; the guard is released and a timer tick
\* is still to come
C33_Witness ==
  /\ \E i \in DOMAIN sessions : out[i].threw
  /\ ~polling /\ polls = {} /\ tasks = {}
  /\ ticks > 0

(***************************************************************************)
(* Properties of the requests that are turned away.                        *)
(***************************************************************************)
\* the signature of the request of the handler is the digest of its body
\* under a secret configured for its endpoint, in the form of the endpoint
Verifies(handler) ==
  IF handler.via = "github"
  THEN \E i \in DOMAIN Projects :
         verifySignature(handler.req.sig, Projects[i].secret, GithubPrefix)
  ELSE \E i \in DOMAIN Projects :
         /\ Projects[i].plane.secret # None
         /\ verifySignature(handler.req.sig, Projects[i].plane.secret, NoPrefix)

\* this step is the arrival of the request of handler h
Arrives(h) == handlers[h].pc = "new" /\ handlers'[h].pc # "new"

\* C34: a request whose signature does not verify is answered at once and
\* has no effect: no dedup entry is recorded (evaluateTriggers is not
\* called), the session manager is not asked to list, spawn or send, no
\* metadata is written and no comment is posted.
C34_UnverifiedHasNoEffect ==
  [][\A h \in 1..MaxDeliveries :
       (Arrives(h) /\ ~Verifies(handlers'[h])) =>
         /\ handlers'[h].pc = "done"
         /\ handlers'[h].projectId = None /\ handlers'[h].sessionId = 0
         /\ seenDeliveries' = seenDeliveries
         /\ sessions' = sessions
         /\ out' = out
         /\ emitted' = {}]_vars

\* an approval comment on the issue of the plan-gated session came with a
\* signature that does not verify and was answered 401; the session waits
\* at its gate as before and no delivery is remembered
C34_Witness ==
  \E h \in 1..MaxDeliveries :
    /\ handlers[h].pc = "done" /\ handlers[h].http = 401
    /\ handlers[h].req.eventType = "issue_comment"
    /\ sessions[1].prpPhase = "plan_gate" /\ out[1].resume = 0
    /\ \A d \in DOMAIN seenDeliveries : seenDeliveries[d] = NoTs

(***************************************************************************)
(* Properties of the project a delivery is attributed to.                  *)
(***************************************************************************)
\* the project whose webhook secret the endpoint took for the request of
\* the handler, or None
SecretProject(handler) ==
  LET i == IF handler.via = "github" THEN FirstProjectOfRepo(handler.req.repo, 1)
           ELSE IF handler.req.workspace = <<>> THEN 0
           ELSE FirstProjectOfWorkspace(handler.req.workspace, 1)
  IN  IF i = 0 THEN None ELSE Projects[i].id

\* C35 (as claimed): every delivery that was verified and led to a spawn
\* was verified with the webhook secret of the project the trigger engine
\* matched and spawned in, on the github and on the plane endpoint.
C35_SecretOfSpawningProject ==
  \A h \in 1..MaxDeliveries :
    handlers[h].result = "spawned" => handlers[h].projectId = SecretProject(handlers[h])

\* the projects configured for the repository
ProjectsOfRepo(repo) == {Projects[i].id : i \in {j \in DOMAIN Projects : Projects[j].repo = repo}}

\* C36 (as claimed): the session an approval comment on an issue of
\* repository R is sent to, and whose prpPhase it changes, belongs to a
\* project configured for R; the plan-gated session of another project
\* with the same issue number is left at its gate.
C36_ResumesOwnProjectOnly ==
  /\ \A h \in 1..MaxDeliveries :
       (handlers[h].via = "github" /\ handlers[h].sessionId # 0) =>
         sessions[handlers[h].sessionId].projectId \in ProjectsOfRepo(handlers[h].req.repo)
  /\ \A i \in DOMAIN sessions :
       (\A h \in 1..MaxDeliveries :
          handlers[h].via = "github" =>
            sessions[i].projectId \notin ProjectsOfRepo(handlers[h].req.repo))
       => out[i].resume = 0 /\ sessions[i].prpPhase = "plan_gate"

(***************************************************************************)
(* Properties of the duplicate-spawn prevention.                           *)
(***************************************************************************)
\* an active session of the project works on the issue of the event
ActiveOnIssue(projectId, issue) ==
  \E i \in DOMAIN sessions :
    /\ sessions[i].projectId = projectId
    /\ sessions[i].issueId = IssueUrl(issue)
    /\ sessions[i].status \notin InactiveStatus

\* C37 (as claimed): evaluateTriggers rejects an event because of an
\* active session only when an active session of the project works on the
\* issue of the event, never because of a session on another issue.
C37_BlockedByOwnIssueOnly ==
  \A h \in 1..MaxDeliveries :
    handlers[h].result = "active session"
      => ActiveOnIssue(handlers[h].projectId, handlers[h].event.issue)

C39_GatedWhenCommentPosted ==
  \A i \in DOMAIN sessions :
    out[i].gate > 0 => sessions[i].prpPhase \in {"plan_gate", "implementing"}

(***************************************************************************)
(* Properties of the sessions whose runtime died.                          *)
(***************************************************************************)
ListedKilled(i) == \E run \in polls : run.pc = "check" /\ run.list[i] = "killed"

KilledProcessed(i) == states[i] = "killed" /\ sessions[i].status = "killed"

\* C40 (as claimed): every session that the session list reports as killed
\* because its runtime died eventually has the transition to killed
\* processed by a poll tick (the status tracked and persisted), also a
\* session the manager has never tracked before.
C40_KilledEventuallyProcessed ==
  \A i \in DOMAIN DeadFleet : ListedKilled(i) ~> KilledProcessed(i)

\* the part of C40 that holds: a session the manager tracks is processed
C40_TrackedKilledProcessed ==
  \A i \in DOMAIN DeadFleet :
    (ListedKilled(i) /\ states[i] \notin {None, "killed"}) ~> KilledProcessed(i)

====
